---- MODULE Spec2Model ----
(***************************************************************************)
(* A model of the potatis NES core: the MOS 6502 interpreter               *)
(* (mos6502/src/cpu.rs), the CPU bus (nes/src/nesbus.rs), the PPU          *)
(* (nes/src/ppu/ppu.rs, state.rs), the joypad, the NROM, UxROM, CNROM,     *)
(* MMC1 and MMC3 mappers, the cartridge loader (nes/src/cartridge.rs) and  *)
(* the driving loop Nes::tick (nes/src/nes.rs).  Spec and SpecFrame start  *)
(* from the state Nes::insert constructs, with the cartridge image as the  *)
(* input; SpecMapper, SpecMmc1, SpecPpu, SpecPalette and SpecJoypad drive  *)
(* the mapper, the PPU registers, the palette and the joypad of such a     *)
(* system call by call; SpecPixel renders the dots of one scanline;        *)
(* SpecLoad loads a file.  SpecCloud is the connection handling of the     *)
(* nes-cloud server (nes-cloud/src/server/server.rs).                      *)
(***************************************************************************)
EXTENDS Integers, Naturals, Sequences, FiniteSets, TLC

VARIABLES
  cpu,          \* mos6502::cpu::Cpu: pc, flags, regs, extra_cycles
  machine,      \* mos6502::Mos6502: total_cycles, total_ticks
  ram,          \* NesBus.ram, the bytes that differ from 0
  ppu,          \* ppu::Ppu
  mapper,       \* the mapper mappers::for_cart built: its registers and RAM
  rom,          \* the file handed to Cartridge::load: its length and header bytes
  cart,         \* the inserted cartridge: PRG ROM bytes, CHR fill bytes
  joypad,       \* joypad::Joypad: state, out
  host,         \* the HostPlatform given to Nes::insert
  shutdown,     \* Nes.shutdown
  halted,       \* "" while running, else the panic message that ended the run
  obs,          \* observations of the last Nes::tick and of the frame so far, or
                \* of the last call or dot
  server        \* nes-cloud: the Server, its event channel and the instances alive

vars == <<cpu, machine, ram, ppu, mapper, rom, cart, joypad, host, shutdown, halted, obs, server>>

\* ------------------------------------------------------------------------
\* Bounds of the exploration
\* ------------------------------------------------------------------------
\* Nes::tick calls explored for a cartridge image that runs for whole frames.
MaxTicks == 12000
\* Nes::tick calls explored for the other cartridge images.
ShortRun == 96

\* ------------------------------------------------------------------------
\* Integer helpers (u8 / u16 arithmetic)
\* ------------------------------------------------------------------------
Byte == 0..255

Pow2(k) == 2 ^ k

\* bit k of n
Bit(n, k) == (n \div Pow2(k)) % 2

RECURSIVE BitAnd(_, _)
BitAnd(a, b) ==
  IF a = 0 \/ b = 0 THEN 0
  ELSE (a % 2) * (b % 2) + 2 * BitAnd(a \div 2, b \div 2)

RECURSIVE BitOr(_, _)
BitOr(a, b) ==
  IF a = 0 THEN b
  ELSE IF b = 0 THEN a
  ELSE (IF a % 2 = 1 \/ b % 2 = 1 THEN 1 ELSE 0) + 2 * BitOr(a \div 2, b \div 2)

RECURSIVE BitXor(_, _)
BitXor(a, b) ==
  IF a = 0 THEN b
  ELSE IF b = 0 THEN a
  ELSE ((a + b) % 2) + 2 * BitXor(a \div 2, b \div 2)

\* u8::wrapping_add / wrapping_sub
WrapAdd8(a, b) == (a + b) % 256
WrapSub8(a, b) == (a - b + 256) % 256
\* u16::wrapping_add / wrapping_sub
WrapAdd16(a, b) == (a + b) % 65536
WrapSub16(a, b) == (a - b + 65536) % 65536

\* ------------------------------------------------------------------------
\* PPU frame state machine (nes/src/ppu/state.rs)
\* ------------------------------------------------------------------------
DotsPerLine == 341

PhaseOf(scanline) ==
  IF scanline = 261 THEN "PreRender"
  ELSE IF scanline <= 239 THEN "Render"
  ELSE IF scanline = 240 THEN "PostRender"
  ELSE IF scanline = 241 THEN "EnteringVblank"
  ELSE "Vblank"

\* State::default()
StateDefault ==
  [phase |-> "Render", cycle |-> 0, scanline |-> 0, clock |-> 0, odd_frame |-> FALSE]

\* State::next: the new State; the tuple it returns is (phase, cycle, rendering)
StateNext(st, rendering_enabled) ==
  LET cycle == st.clock % DotsPerLine
      scanline == st.clock \div DotsPerLine
      clock1 == st.clock + 1
      phase == PhaseOf(scanline)
      clock2 == IF phase = "PreRender" /\ cycle = 339 /\ st.odd_frame /\ rendering_enabled
                THEN 0 ELSE clock1
      clock3 == IF phase = "PreRender" /\ cycle = 340 THEN 0 ELSE clock2
  IN [phase |-> phase, cycle |-> cycle, scanline |-> scanline,
      clock |-> clock3, odd_frame |-> ~st.odd_frame]

\* State::even_frame
EvenFrame(st) == ~st.odd_frame

\* ------------------------------------------------------------------------
\* MMC3 scanline counter (nes/src/mappers/mmc3.rs)
\* ------------------------------------------------------------------------
\* MMC3::new
MapperNew ==
  [prg_rom_bank_mode |-> 0, chr_rom_bank_mode |-> 0,
   registers |-> [i \in 0..7 |-> 0], register_to_update |-> 0,
   irq_enabled |-> FALSE, irq_latch |-> 0, irq_counter |-> 0, irq_reload |-> FALSE,
   prg_ram |-> [i \in {} |-> 0], mirroring |-> cart.mirroring]

\* MMC3::irq: the mapper after the call and the value returned
MapperIrq(m) ==
  IF m.irq_reload
  THEN [m |-> [m EXCEPT !.irq_counter = m.irq_latch, !.irq_reload = FALSE], ret |-> FALSE]
  ELSE IF m.irq_counter = 0
  THEN [m |-> [m EXCEPT !.irq_counter = m.irq_latch], ret |-> m.irq_enabled]
  ELSE [m |-> [m EXCEPT !.irq_counter = m.irq_counter - 1], ret |-> FALSE]

\* ------------------------------------------------------------------------
\* MMC3 as seen from the CPU (nes/src/mappers/mmc3.rs)
\* ------------------------------------------------------------------------
KB8 == 8192

\* a byte of the PRG ROM image; bytes the image does not list are 0
PrgByte(index) == IF index \in DOMAIN cart.prg THEN cart.prg[index] ELSE 0

\* Cartridge::chr: a CHR ROM holds chr_fill in every byte of its first 4 KiB
\* and chr_upper in every byte after them
ChrByte(index) == IF index % KB8 >= 4096 THEN cart.chr_upper ELSE cart.chr_fill

\* MMC3::read_prg: the bank the address falls in
PrgBank(m, address) ==
  LET second_last_bank == cart.prg_banks - 2
      d6 == m.prg_rom_bank_mode
  IN IF address <= 40959 THEN (IF d6 = 0 THEN m.registers[6] ELSE second_last_bank)
     ELSE IF address <= 49151 THEN m.registers[7]
     ELSE IF address <= 57343 THEN (IF d6 = 0 THEN second_last_bank ELSE m.registers[6])
     ELSE cart.prg_banks - 1

\* MMC3::read8; read_chr of a CHR ROM whose every byte is chr_fill
Mmc3Read8(s, address) ==
  IF address <= 8191 THEN [s |-> s, val |-> ChrByte(address)]
  ELSE IF address < 24576 THEN [s |-> s, val |-> 0]
  ELSE IF address < 32768
  THEN [s |-> s,
        val |-> IF address \in DOMAIN s.mapper.prg_ram THEN s.mapper.prg_ram[address] ELSE 0]
  ELSE LET bank == PrgBank(s.mapper, address) IN
       IF bank >= cart.prg_banks
       THEN [s |-> [s EXCEPT !.panic = "index out of bounds"], val |-> 0]
       ELSE [s |-> s, val |-> PrgByte(bank * KB8 + (address % KB8))]

\* the callback MMC3::on_runtime_mirroring stores: the PPU's nametable mirror
\* map takes the mirroring it is told
MirroringCb(s, runtime_mirroring) == [s EXCEPT !.mapper.mirroring = runtime_mirroring]

\* MMC3::write8
Mmc3Write8(s, val, address) ==
  LET m == s.mapper
      even == address % 2 = 0
  IN
  IF address < 24576 THEN s
  ELSE IF address < 32768
  THEN [s EXCEPT !.mapper.prg_ram =
          [x \in DOMAIN m.prg_ram \cup {address} |-> IF x = address THEN val ELSE m.prg_ram[x]]]
  ELSE IF address <= 40959
  THEN IF even
       THEN [s EXCEPT !.mapper.prg_rom_bank_mode = Bit(val, 6),
                      !.mapper.chr_rom_bank_mode = Bit(val, 7),
                      !.mapper.register_to_update = val % 8]
       ELSE [s EXCEPT !.mapper.registers[m.register_to_update] =
               IF m.register_to_update \in {0, 1} THEN val - (val % 2)
               ELSE IF m.register_to_update \in {6, 7} THEN val % 64
               ELSE val]
  ELSE IF address <= 49151
  THEN IF even
       THEN LET runtime_mirroring == IF val % 2 = 1 THEN "Horizontal" ELSE "Vertical"
            IN IF cart.mirroring # runtime_mirroring
               THEN MirroringCb(s, runtime_mirroring)
               ELSE s
       ELSE s
  ELSE IF address <= 57343
  THEN IF even
       THEN [s EXCEPT !.mapper.irq_latch = val]
       ELSE [s EXCEPT !.mapper.irq_reload = TRUE]
  ELSE IF m.irq_enabled /\ even /\ m.irq_counter <= 1
       THEN [s EXCEPT !.panic = "acknowledge any pending interrupts. "]
       ELSE [s EXCEPT !.mapper.irq_enabled = ~even]

\* ------------------------------------------------------------------------
\* NROM (nes/src/mappers/nrom.rs)
\* ------------------------------------------------------------------------
KB16 == 16384

\* NROM::new; prg_ram and chr_ram hold the bytes that differ from 0
NromNew == [prg_ram |-> [i \in {} |-> 0], chr_ram |-> [i \in {} |-> 0],
            is_16kb |-> cart.prg_banks * KB8 = KB16, mirroring |-> cart.mirroring]

\* NROM::read8
NromRead8(s, address) ==
  LET m == s.mapper IN
  IF address <= 8191
  THEN [s |-> s, val |-> IF cart.chr_ram_mode
                         THEN (IF address \in DOMAIN m.chr_ram THEN m.chr_ram[address] ELSE 0)
                         ELSE ChrByte(address)]
  ELSE IF address >= 24576 /\ address <= 32767
  THEN [s |-> s, val |-> IF address \in DOMAIN m.prg_ram THEN m.prg_ram[address] ELSE 0]
  ELSE IF address >= 32768 /\ address <= 49151
  THEN [s |-> s, val |-> PrgByte(address - 32768)]
  ELSE IF address >= 49152
  THEN [s |-> s, val |-> IF m.is_16kb THEN PrgByte(address - 49152)
                         ELSE PrgByte(KB16 + (address - 49152))]
  ELSE [s |-> [s EXCEPT !.panic = "unknown NROM memory range"], val |-> 0]

\* NROM::write8
NromWrite8(s, val, address) ==
  LET m == s.mapper IN
  IF address <= 8191
  THEN IF ~cart.chr_ram_mode
       THEN [s EXCEPT !.panic = "This cart is not configured for CHR RAM! Legit write?"]
       ELSE [s EXCEPT !.mapper.chr_ram =
               [x \in DOMAIN m.chr_ram \cup {address} |-> IF x = address THEN val ELSE m.chr_ram[x]]]
  ELSE IF address >= 24576 /\ address <= 32767
  THEN [s EXCEPT !.mapper.prg_ram =
          [x \in DOMAIN m.prg_ram \cup {address} |-> IF x = address THEN val ELSE m.prg_ram[x]]]
  ELSE [s EXCEPT !.panic = "writing to rom"]

\* ------------------------------------------------------------------------
\* MMC1 (nes/src/mappers/mmc1.rs)
\* ------------------------------------------------------------------------
KB4 == 4096

\* MMC1::new; the CHR memory is 8 KiB, two banks of 4 KiB
Mmc1New ==
  [prg_ram |-> [i \in {} |-> 0], chr_ram |-> [i \in {} |-> 0],
   prg_rom_bank_mode |-> "FixLastUpperSwitchLower", selected_prg_bank |-> 0,
   chr_rom_bank_mode |-> "Switch8Kb", selected_chr_bank_0 |-> 0, selected_chr_bank_1 |-> 0,
   shift_register |-> 0, num_shift_writes |-> 0, mirroring |-> cart.mirroring]

\* MMC1::update_control_register
UpdateControlRegister(m, val) ==
  [m EXCEPT !.mirroring = CASE val % 4 = 0 -> "SingleScreenLower"
                            [] val % 4 = 1 -> "SingleScreenUpper"
                            [] val % 4 = 2 -> "Vertical"
                            [] OTHER -> "Horizontal",
            !.chr_rom_bank_mode = IF Bit(val, 4) = 0 THEN "Switch8Kb" ELSE "SwitchTwo4KbBanks",
            !.prg_rom_bank_mode = CASE (val \div 4) % 4 \in {0, 1} -> "Switch32Kb"
                                    [] (val \div 4) % 4 = 2 -> "FixFirstLowerSwitchUpper"
                                    [] OTHER -> "FixLastUpperSwitchLower"]

\* the match on the address of MMC1::write_to_shift_register, with
\* switch_lower_chr_bank and switch_upper_chr_bank
CommitShiftRegister(m, address) ==
  IF address <= 40959 THEN UpdateControlRegister(m, m.shift_register)
  ELSE IF address <= 49151
  THEN [m EXCEPT !.selected_chr_bank_0 = IF m.chr_rom_bank_mode = "Switch8Kb"
                                         THEN m.shift_register \div 2 ELSE m.shift_register]
  ELSE IF address <= 57343
  THEN IF m.chr_rom_bank_mode = "Switch8Kb" THEN m
       ELSE [m EXCEPT !.selected_chr_bank_1 = m.shift_register]
  ELSE [m EXCEPT !.selected_prg_bank = m.shift_register % 16]

\* MMC1::reset_shift_register
ResetShiftRegister(m) == [m EXCEPT !.num_shift_writes = 0, !.shift_register = 0]

\* a variant that shifts the new bit in at the low end
WriteToShiftRegisterMsbFirst(m, val, address) ==
  IF val >= 128 THEN ResetShiftRegister(m)
  ELSE LET m1 == [m EXCEPT !.shift_register = ((m.shift_register * 2) % 32) + (val % 2),
                           !.num_shift_writes = m.num_shift_writes + 1]
       IN IF m1.num_shift_writes = 5 THEN ResetShiftRegister(CommitShiftRegister(m1, address))
          ELSE m1

\* MMC1::write_to_shift_register
WriteToShiftRegister(m, val, address) ==
  IF val >= 128 THEN ResetShiftRegister(m)
  ELSE LET m1 == [m EXCEPT !.shift_register = (m.shift_register \div 2) + (val % 2) * 16,
                           !.num_shift_writes = m.num_shift_writes + 1]
       IN IF m1.num_shift_writes = 5 THEN ResetShiftRegister(CommitShiftRegister(m1, address))
          ELSE m1

\* the 16 KiB PRG bank MMC1::lower_prg_bank and upper_prg_bank select for the address
Mmc1PrgBank(m, address) ==
  IF address <= 49151
  THEN CASE m.prg_rom_bank_mode = "Switch32Kb" -> m.selected_prg_bank \div 2
         [] m.prg_rom_bank_mode = "FixFirstLowerSwitchUpper" -> 0
         [] OTHER -> m.selected_prg_bank
  ELSE CASE m.prg_rom_bank_mode = "Switch32Kb" -> (m.selected_prg_bank \div 2) + 1
         [] m.prg_rom_bank_mode = "FixFirstLowerSwitchUpper" -> m.selected_prg_bank
         [] OTHER -> ((cart.prg_banks * KB8) \div KB16) - 1

\* the 4 KiB CHR bank MMC1::lower_chr_bank and upper_chr_bank select for the address
Mmc1ChrBank(m, address) ==
  IF address <= 4095 THEN m.selected_chr_bank_0
  ELSE IF m.chr_rom_bank_mode = "Switch8Kb" THEN m.selected_chr_bank_0 + 1
  ELSE m.selected_chr_bank_1

\* MMC1::read8
Mmc1Read8(s, address) ==
  LET m == s.mapper IN
  IF address <= 8191
  THEN IF Mmc1ChrBank(m, address) >= KB8 \div KB4
       THEN [s |-> [s EXCEPT !.panic = "index out of bounds"], val |-> 0]
       ELSE [s |-> s,
             val |-> IF cart.chr_ram_mode
                     THEN LET i == Mmc1ChrBank(m, address) * KB4 + (address % KB4)
                          IN IF i \in DOMAIN m.chr_ram THEN m.chr_ram[i] ELSE 0
                     ELSE ChrByte(address)]
  ELSE IF address >= 24576 /\ address <= 32767
  THEN [s |-> s, val |-> IF address \in DOMAIN m.prg_ram THEN m.prg_ram[address] ELSE 0]
  ELSE IF address >= 32768
  THEN IF Mmc1PrgBank(m, address) >= (cart.prg_banks * KB8) \div KB16
       THEN [s |-> [s EXCEPT !.panic = "index out of bounds"], val |-> 0]
       ELSE [s |-> s, val |-> PrgByte(Mmc1PrgBank(m, address) * KB16 + (address % KB16))]
  ELSE [s |-> [s EXCEPT !.panic = "unknown mmc1 memory range"], val |-> 0]

\* MMC1::write8, with write_chr_ram
Mmc1Write8(s, val, address) ==
  LET m == s.mapper IN
  IF address <= 8191
  THEN IF ~cart.chr_ram_mode
       THEN [s EXCEPT !.panic = "This cart is not configured for CHR RAM! Legit write?"]
       ELSE [s EXCEPT !.mapper.chr_ram =
               [x \in DOMAIN m.chr_ram \cup {address} |-> IF x = address THEN val ELSE m.chr_ram[x]]]
  ELSE IF address >= 24576 /\ address <= 32767
  THEN [s EXCEPT !.mapper.prg_ram =
          [x \in DOMAIN m.prg_ram \cup {address} |-> IF x = address THEN val ELSE m.prg_ram[x]]]
  ELSE IF address >= 32768 THEN [s EXCEPT !.mapper = WriteToShiftRegister(m, val, address)]
  ELSE [s EXCEPT !.panic = "writing to rom"]

\* ------------------------------------------------------------------------
\* UxROM (nes/src/mappers/uxrom.rs)
\* ------------------------------------------------------------------------
\* UxROM::read8; prg_rom_banks holds the 16 KiB chunks of the PRG ROM
UxromRead8(s, address) ==
  IF address <= 8191
  THEN [s |-> s, val |-> IF cart.chr_ram_mode
                         THEN (IF address \in DOMAIN s.mapper.chr_ram
                               THEN s.mapper.chr_ram[address] ELSE 0)
                         ELSE ChrByte(address)]
  ELSE IF address >= 32768 /\ address <= 49151
  THEN IF s.mapper.bank >= (cart.prg_banks * KB8) \div KB16
       THEN [s |-> [s EXCEPT !.panic = "index out of bounds"], val |-> 0]
       ELSE [s |-> s, val |-> PrgByte(s.mapper.bank * KB16 + (address - 32768))]
  ELSE IF address >= 49152
  THEN [s |-> s, val |-> PrgByte((cart.prg_banks * KB8) - KB16 + (address - 49152))]
  ELSE [s |-> s, val |-> 0]

\* UxROM::write8; a write to the pattern tables of a CHR ROM cartridge is
\* taken to change nothing
UxromWrite8(s, val, address) ==
  IF address <= 8191
  THEN IF cart.chr_ram_mode
       THEN [s EXCEPT !.mapper.chr_ram =
               [x \in DOMAIN s.mapper.chr_ram \cup {address} |->
                  IF x = address THEN val ELSE s.mapper.chr_ram[x]]]
       ELSE s
  ELSE IF address >= 32768 THEN [s EXCEPT !.mapper.bank = val]
  ELSE s

\* ------------------------------------------------------------------------
\* CNROM (nes/src/mappers/cnrom.rs)
\* ------------------------------------------------------------------------
\* CNROM::read8.  With 16 KiB of PRG the index address - $8000 - KB16 is
\* below 0 for $8000-$BFFF: the subtraction panics in a build with overflow
\* checks and the index is out of bounds in one without.  The last arm
\* indexes the 8 KiB prg_ram with the address itself.
CnromRead8(s, address) ==
  IF address <= 8191
  THEN IF s.mapper.selected_bank * KB8 + address >= KB8
       THEN [s |-> [s EXCEPT !.panic = "index out of bounds"], val |-> 0]
       ELSE [s |-> s, val |-> ChrByte(address)]
  ELSE IF address >= 32768
  THEN IF s.mapper.is_16kb
       THEN IF address - 32768 - KB16 < 0
            THEN [s |-> [s EXCEPT !.panic = "index out of bounds"], val |-> 0]
            ELSE [s |-> s, val |-> PrgByte(address - 32768 - KB16)]
       ELSE [s |-> s, val |-> PrgByte(address - 32768)]
  ELSE IF address >= KB8
  THEN [s |-> [s EXCEPT !.panic = "index out of bounds"], val |-> 0]
  ELSE [s |-> s, val |-> IF address \in DOMAIN s.mapper.prg_ram
                         THEN s.mapper.prg_ram[address] ELSE 0]

\* CNROM::write8
CnromWrite8(s, val, address) ==
  IF address >= 32768 THEN [s EXCEPT !.mapper.selected_bank = val % 4]
  ELSE IF address >= KB8 THEN [s EXCEPT !.panic = "index out of bounds"]
  ELSE [s EXCEPT !.mapper.prg_ram =
          [x \in DOMAIN s.mapper.prg_ram \cup {address} |->
             IF x = address THEN val ELSE s.mapper.prg_ram[x]]]

\* ------------------------------------------------------------------------
\* The mapper of the inserted cartridge (nes/src/mappers/mod.rs)
\* ------------------------------------------------------------------------
\* mappers::for_cart
MapperFor ==
  CASE cart.mapper_type = "Nrom" -> NromNew
    [] cart.mapper_type = "Mmc1" -> Mmc1New
    [] cart.mapper_type = "Uxrom" ->
         [bank |-> 0, chr_ram |-> [i \in {} |-> 0], mirroring |-> cart.mirroring]
    [] cart.mapper_type = "Cnrom" ->
         [selected_bank |-> 0, is_16kb |-> cart.prg_banks * KB8 = KB16,
          prg_ram |-> [i \in {} |-> 0], mirroring |-> cart.mirroring]
    [] OTHER -> MapperNew

\* Mapper::irq: MMC3 overrides it, the other mappers keep the default
MapperClock(m) == IF cart.mapper_type = "Mmc3" THEN MapperIrq(m) ELSE [m |-> m, ret |-> FALSE]

\* Bus::read8 of the Rc<RefCell<dyn Mapper>>
MapperRead8(s, address) ==
  CASE cart.mapper_type = "Nrom" -> NromRead8(s, address)
    [] cart.mapper_type = "Mmc1" -> Mmc1Read8(s, address)
    [] cart.mapper_type = "Uxrom" -> UxromRead8(s, address)
    [] cart.mapper_type = "Cnrom" -> CnromRead8(s, address)
    [] OTHER -> Mmc3Read8(s, address)

\* Bus::write8 of the Rc<RefCell<dyn Mapper>>
MapperWrite8(s, val, address) ==
  CASE cart.mapper_type = "Nrom" -> NromWrite8(s, val, address)
    [] cart.mapper_type = "Mmc1" -> Mmc1Write8(s, val, address)
    [] cart.mapper_type = "Uxrom" -> UxromWrite8(s, val, address)
    [] cart.mapper_type = "Cnrom" -> CnromWrite8(s, val, address)
    [] OTHER -> Mmc3Write8(s, val, address)

\* ------------------------------------------------------------------------
\* PPU (nes/src/ppu/ppu.rs)
\* ------------------------------------------------------------------------
\* palette::BLARRG_PALETTE
BlarrgPalette ==
  [i \in 0..31 |->
     << 9, 1, 0, 1,  0, 2, 2, 13,  8, 16, 8, 36,  0, 0, 4, 44,
        9, 1, 52, 3,  0, 4, 0, 20,  8, 58, 0, 2,  0, 32, 44, 8 >>[i + 1]]

\* Ppu::new; the nametables hold the bytes that differ from 0
PpuNew ==
  [state |-> StateDefault,
   oam |-> [i \in 0..255 |-> 0], oam_address |-> 0, sprites |-> <<>>,
   v |-> 0, t |-> 0, fine_x |-> 0, w_latch |-> TRUE,
   in_vblank |-> FALSE, sprite_0_hit |-> FALSE, sprite_overflow |-> FALSE,
   data_buffer |-> 0,
   nametables |-> [i \in {} |-> 0], palette |-> BlarrgPalette,
   vram_addr_inc |-> 0, sprite_table_address_8 |-> 0, sprite_size_16 |-> FALSE,
   background_table_address |-> 0, nmi_at_start_of_vblank |-> FALSE,
   show_background |-> FALSE, show_background_left |-> FALSE,
   show_sprites |-> FALSE, show_sprites_left |-> FALSE, rendering_enabled |-> FALSE]

\* Vram::map
VramMap(mode, virtual_index) ==
  IF mode = "Vertical" THEN virtual_index % 2
  ELSE IF mode = "Horizontal" THEN virtual_index \div 2
  ELSE IF mode = "SingleScreenLower" THEN 0
  ELSE 1

\* Vram::read
VramRead(p, m, address) ==
  LET k == <<VramMap(m.mirroring, (address \div 1024) % 4), address % 1024>>
  IN IF k \in DOMAIN p.nametables THEN p.nametables[k] ELSE 0

\* Vram::write
VramWrite(p, m, val, address) ==
  LET k == <<VramMap(m.mirroring, (address \div 1024) % 4), address % 1024>>
  IN [p EXCEPT !.nametables =
        [x \in DOMAIN p.nametables \cup {k} |-> IF x = k THEN val ELSE p.nametables[x]]]

\* a mirror without the four background-colour entries
PaletteMirrorPlain(address) ==
  IF address <= 16159 THEN address ELSE 16128 + (address % 32)

\* Palette::mirror
PaletteMirror(address) ==
  LET mirrored == IF address <= 16159 THEN address ELSE 16128 + (address % 32)
  IN IF mirrored \in {16144, 16148, 16152, 16156} THEN mirrored - 16 ELSE mirrored

\* Ppu::read_chr_rom: the mapper's read8 of a CHR ROM address
ReadChrRom(address) == ChrByte(address)

\* Ppu::inc_v
IncV(p) == [p EXCEPT !.v = (p.v + p.vram_addr_inc) % 65536]

\* Ppu::inc_y
IncY(p) ==
  LET v == p.v IN
  IF BitAnd(v, 28672) # 28672
  THEN [p EXCEPT !.v = (v + 4096) % 65536]
  ELSE LET v1 == v - BitAnd(v, 28672)
           y == BitAnd(v1, 992) \div 32
           v2 == IF y = 29 THEN BitXor(v1, 2048) ELSE v1
           y2 == IF y = 29 \/ y = 31 THEN 0 ELSE y + 1
       IN [p EXCEPT !.v = (v2 - BitAnd(v2, 992)) + y2 * 32]

\* Ppu::copy_horizontal_from_t_to_v
CopyHorizontalFromTToV(p) ==
  [p EXCEPT !.v = BitOr(BitAnd(p.v, 31712), BitAnd(p.t, 1055))]

\* Ppu::copy_vertical_from_t_to_v
CopyVerticalFromTToV(p) ==
  [p EXCEPT !.v = BitOr(BitAnd(p.v, 1055), BitAnd(p.t, 31712))]

\* the 8 packed palette indices of one sprite row (load_sprites_for_next_scanline)
SpritePixels(first_plane, second_plane, attr) ==
  [i \in 0..7 |->
     LET j == IF Bit(attr, 6) = 1 THEN 7 - i ELSE i
     IN Bit(first_plane, j) + 2 * Bit(second_plane, j) + 4 * (attr % 4)]

\* the OAM entries that pass the tests of load_sprites_for_next_scanline:
\* not hidden, and next_line falls on one of their rows
SpritesOnLine(p, next_line) ==
  LET sprite_height == IF p.sprite_size_16 THEN 16 ELSE 8
  IN {sprite \in 0..63 :
        /\ p.oam[sprite * 4] <= 238
        /\ next_line >= p.oam[sprite * 4] + 1
        /\ next_line < p.oam[sprite * 4] + 1 + sprite_height}

\* the k-th entry, in the order of `for sprite in 0..64`, of those on the line
NthSprite(on_line, k) ==
  CHOOSE sprite \in on_line : Cardinality({other \in on_line : other < sprite}) = k - 1

\* the Sprite pushed for the OAM entry `sprite` when sprite_n were pushed before
LoadSprite(p, next_line, sprite, sprite_n) ==
  LET sprite_addr == sprite * 4
      sprite_height == IF p.sprite_size_16 THEN 16 ELSE 8
      sprite_y == p.oam[sprite_addr] + 1
      number0 == p.oam[sprite_addr + 1]
      sprite_table == IF p.sprite_size_16
                      THEN (IF number0 % 2 = 1 THEN 4096 ELSE 0)
                      ELSE p.sprite_table_address_8
      number == IF p.sprite_size_16 THEN number0 \div 2 ELSE number0
      attr == p.oam[sprite_addr + 2]
      tile_row == IF Bit(attr, 7) = 1
                  THEN sprite_height - 1 - (next_line - sprite_y)
                  ELSE next_line - sprite_y
      index == IF p.sprite_size_16
               THEN number * 32 + tile_row + (IF tile_row > 7 THEN 8 ELSE 0)
               ELSE number * 16 + tile_row
      address == sprite_table + index
  IN [pixels |-> SpritePixels(ReadChrRom(address), ReadChrRom(address + 8), attr),
      priority |-> Bit(attr, 5) = 1,
      x |-> p.oam[sprite_addr + 3],
      zero |-> sprite_n = 0]

\* Ppu::load_sprites_for_next_scanline: the first 8 entries on the next line
\* are loaded, in OAM order; a ninth sets the overflow flag and ends the loop
LoadSpritesForNextScanline(p) ==
  LET next_line == p.state.scanline + 1
      on_line == SpritesOnLine(p, next_line)
      found == Cardinality(on_line)
  IN [p EXCEPT
        !.sprites = [k \in 1..(IF found > 8 THEN 8 ELSE found) |->
                       LoadSprite(p, next_line, NthSprite(on_line, k), k - 1)],
        !.sprite_overflow = p.sprite_overflow \/ found > 8]

\* Ppu::render_background_pixel: its return value, whether an opaque
\* background pixel was drawn (the pixel written to the frame is not kept)
RenderBackgroundPixel(p, x, y) ==
  LET scroll_x == (p.v % 32) * 8 + p.fine_x
      vx0 == x + scroll_x
      virtual_x == IF vx0 >= 256 THEN vx0 - 256 ELSE vx0
      scroll_y == ((p.v \div 32) % 32) * 8 + (p.v \div 4096)
      virtual_y == IF scroll_y >= 240 THEN scroll_y - 240 ELSE scroll_y
      first_plane_byte == ReadChrRom(p.background_table_address + (virtual_y % 8))
      second_plane_byte == ReadChrRom(p.background_table_address + (virtual_y % 8) + 8)
      first_plane_bit == Bit(first_plane_byte, 7 - (virtual_x % 8))
      second_plane_bit == Bit(second_plane_byte, 7 - (virtual_x % 8))
  IN ~(first_plane_bit = 0 /\ second_plane_bit = 0)

\* u8::saturating_add
SaturatingAdd8(a, b) == IF a + b > 255 THEN 255 ELSE a + b

\* a sprite-0-hit condition that does not ask for a background pixel
SpriteZeroHitsAnyBackground(p, sprite, x, bg_pixel_drawn) ==
  /\ ~(x < sprite.x \/ x >= SaturatingAdd8(sprite.x, 8))
  /\ sprite.pixels[7 - (x - sprite.x)] % 4 # 0
  /\ ~(x = 255 \/ (x <= 7 /\ (~p.show_sprites_left \/ ~p.show_background_left)))
  /\ sprite.zero

\* the sprite-0-hit condition of one secondary-OAM entry in render_sprite_pixel
SpriteZeroHits(p, sprite, x, bg_pixel_drawn) ==
  /\ ~(x < sprite.x \/ x >= SaturatingAdd8(sprite.x, 8))
  /\ sprite.pixels[7 - (x - sprite.x)] % 4 # 0
  /\ ~(x = 255 \/ (x <= 7 /\ (~p.show_sprites_left \/ ~p.show_background_left)))
  /\ sprite.zero
  /\ bg_pixel_drawn

\* Ppu::render_sprite_pixel: its effect on the PPU registers
RenderSpritePixel(p, x, y, bg_pixel_drawn) ==
  IF ~p.sprite_0_hit
     /\ \E i \in 1..Len(p.sprites) : SpriteZeroHits(p, p.sprites[i], x, bg_pixel_drawn)
  THEN [p EXCEPT !.sprite_0_hit = TRUE]
  ELSE p

\* Ppu::render_background_pixel: the palette index handed to rgb_from_index
\* for the pixel it writes to the frame, 0 for a transparent pixel
BackgroundEntry(p, m, x, y) ==
  LET scroll_x == (p.v % 32) * 8 + p.fine_x
      vx0 == x + scroll_x
      virtual_x == IF vx0 >= 256 THEN vx0 - 256 ELSE vx0
      scroll_y == ((p.v \div 32) % 32) * 8 + (p.v \div 4096)
      virtual_y == IF scroll_y >= 240 THEN scroll_y - 240 ELSE scroll_y
      index == BitXor(BitXor((p.v \div 1024) % 4, IF vx0 >= 256 THEN 1 ELSE 0),
                      IF scroll_y >= 240 THEN 2 ELSE 0)
      vertical_tile == virtual_y \div 8
      horizontal_tile == virtual_x \div 8
      attr_offset == 960 + (vertical_tile \div 4) * 8 + (horizontal_tile \div 4)
      k == <<VramMap(m.mirroring, index), attr_offset>>
      attr == IF k \in DOMAIN p.nametables THEN p.nametables[k] ELSE 0
      shift == ((horizontal_tile % 4) \div 2) * 2 + ((vertical_tile % 4) \div 2) * 4
      color_bits == (attr \div Pow2(shift)) % 4
      first_plane_bit == Bit(ReadChrRom(p.background_table_address + (virtual_y % 8)),
                             7 - (virtual_x % 8))
      second_plane_bit == Bit(ReadChrRom(p.background_table_address + (virtual_y % 8) + 8),
                              7 - (virtual_x % 8))
  IN IF first_plane_bit = 0 /\ second_plane_bit = 0 THEN 0
     ELSE first_plane_bit + (second_plane_bit * 2) + (color_bits * 4)

\* the loop of Ppu::render_sprite_pixel from the k-th sprite on: the palette
\* index of the pixel the frame holds at the end, drawn if no sprite writes
RECURSIVE SpritesDraw(_, _, _, _, _)
SpritesDraw(p, x, bg_pixel_drawn, k, drawn) ==
  IF k > Len(p.sprites) THEN drawn
  ELSE LET sprite == p.sprites[k] IN
       IF x < sprite.x \/ x >= SaturatingAdd8(sprite.x, 8)
          \/ sprite.pixels[7 - (x - sprite.x)] % 4 = 0
       THEN SpritesDraw(p, x, bg_pixel_drawn, k + 1, drawn)
       ELSE SpritesDraw(p, x, bg_pixel_drawn, k + 1,
                        IF ~sprite.priority \/ ~bg_pixel_drawn
                        THEN 16 + sprite.pixels[7 - (x - sprite.x)]
                        ELSE drawn)

\* the (Phase::Render, 0..=255, _) arm of Ppu::tick: the palette index of the
\* pixel it leaves in the frame at (cycle, scanline), -1 if it writes none
FramePixel(p, m) ==
  LET x == p.state.cycle
      y == p.state.scanline
      show_bg == p.show_background /\ (p.show_background_left \/ x >= 8)
      bg_pixel_drawn == IF show_bg THEN RenderBackgroundPixel(p, x, y) ELSE FALSE
      sprites_visible == p.show_sprites /\ (p.show_sprites_left \/ x >= 8)
      drawn == IF show_bg THEN BackgroundEntry(p, m, x, y) ELSE -1
  IN IF sprites_visible THEN SpritesDraw(p, x, bg_pixel_drawn, 1, drawn) ELSE drawn

\* the (Phase::Render, 0..=255, _) arm of Ppu::tick
RenderVisiblePixel(p) ==
  LET x == p.state.cycle
      y == p.state.scanline
      show_bg == p.show_background /\ (p.show_background_left \/ x >= 8)
      bg_pixel_drawn == IF show_bg THEN RenderBackgroundPixel(p, x, y) ELSE FALSE
      sprites_visible == p.show_sprites /\ (p.show_sprites_left \/ x >= 8)
  IN IF sprites_visible THEN RenderSpritePixel(p, x, y, bg_pixel_drawn) ELSE p

\* a variant setting the flag one dot later
SetsVblankLate(cycle) == cycle = 2

\* the cycle of the (Phase::EnteringVblank, 1, _) arm of Ppu::tick
SetsVblank(cycle) == cycle = 1

\* One iteration of the loop of Ppu::tick on c = [ppu, mapper, irq]:
\* State::next followed by the match on (phase, cycle, rendering).
DotStep(c) ==
  LET st == StateNext(c.ppu.state, c.ppu.rendering_enabled)
      p == [c.ppu EXCEPT !.state = st]
      en == p.rendering_enabled
      ph == st.phase
      cy == st.cycle
  IN
  IF ph = "PreRender" /\ cy = 1
  THEN [c EXCEPT !.ppu = [p EXCEPT !.in_vblank = FALSE, !.sprite_0_hit = FALSE,
                                   !.sprite_overflow = FALSE]]
  ELSE IF ph \in {"Render", "PreRender"} /\ cy = 256 /\ en
  THEN [c EXCEPT !.ppu = IncY(p)]
  ELSE IF ph \in {"Render", "PreRender"} /\ cy = 257 /\ en
  THEN [c EXCEPT !.ppu = CopyHorizontalFromTToV(p)]
  ELSE IF ph = "PreRender" /\ cy >= 280 /\ cy <= 304 /\ en
  THEN [c EXCEPT !.ppu = CopyVerticalFromTToV(p)]
  ELSE IF ph = "Render" /\ cy <= 255
  THEN [c EXCEPT !.ppu = RenderVisiblePixel(p)]
  ELSE IF ph = "Render" /\ cy = 320
  THEN [c EXCEPT !.ppu = LoadSpritesForNextScanline(p)]
  ELSE IF ph = "EnteringVblank" /\ SetsVblank(cy)
  THEN [c EXCEPT !.ppu = [p EXCEPT !.in_vblank = TRUE]]
  ELSE IF ph \in {"Render", "PostRender"} /\ cy = 260 /\ en
  THEN LET r == MapperClock(c.mapper)
       IN [c EXCEPT !.ppu = p, !.mapper = r.m, !.irq = r.ret]
  ELSE [c EXCEPT !.ppu = p]

\* ------------------------------------------------------------------------
\* Observations.  s.o records what the current Nes::tick did, dot by dot,
\* and the length of the frames completed so far.  It is written by
\* Observe only and read by no operator that models the program.
\* ------------------------------------------------------------------------
CpuNewObs ==
  [pc |-> 0, flags |-> {}, regs |-> [r \in {"AC", "X", "Y", "SP"} |-> 0], extra_cycles |-> 0]

ObsNew ==
  [dots |-> 0, dma_dots |-> 0, in_dma |-> FALSE, log |-> <<>>, dma |-> <<>>,
   inst |-> [opcode |-> "none", mode |-> "Impl", cycles |-> 0, size |-> 0],
   operands |-> <<0, 0>>, pc_before |-> 0, pc_after |-> 0, flags_before |-> {},
   target |-> -1, taken |-> FALSE, cycles |-> 0,
   pre_int |-> [cpu |-> CpuNewObs, ram |-> <<>>],
   event |-> "Nothing", render |-> 0, poll |-> 0, nmi |-> 0, irq_calls |-> 0,
   irq_taken |-> 0, reset |-> 0, polled |-> "No", calls |-> <<>>,
   irq_pending_before |-> FALSE, irq_ignored_total |-> 0, irq_taken_total |-> 0,
   total_dots |-> 0, dma_total |-> 0, irq_unserviced |-> FALSE,
   frame_no |-> 0, frame_dots |-> 0, frame_flips |-> 0, frame_rend |-> {},
   last_len |-> 0, last_flips |-> 0, last_rend |-> {},
   prev_len |-> 0, prev_rend |-> {}, clk |-> <<>>]

\* what stays of the observations when a new Nes::tick starts
ObsStartTick(o) ==
  [o EXCEPT !.dots = 0, !.dma_dots = 0, !.in_dma = FALSE, !.log = <<>>, !.dma = <<>>,
            !.inst = ObsNew.inst, !.target = -1, !.taken = FALSE, !.cycles = 0,
            !.event = "Nothing", !.render = 0, !.poll = 0, !.nmi = 0,
            !.irq_calls = 0, !.irq_taken = 0, !.reset = 0, !.polled = "No",
            !.calls = <<>>, !.irq_pending_before = o.irq_unserviced, !.clk = <<>>]

Observe(o, b, a) ==
  LET st == a.ppu.state
      wrapped == st.clock = 0
      notable == \/ (st.scanline \in {241, 261} /\ st.cycle = 1)
                 \/ b.ppu.in_vblank # a.ppu.in_vblank
                 \/ b.ppu.sprite_0_hit # a.ppu.sprite_0_hit
                 \/ b.ppu.sprite_overflow # a.ppu.sprite_overflow
      entry == [scanline |-> st.scanline, cycle |-> st.cycle, dma |-> o.in_dma,
                vbl |-> <<b.ppu.in_vblank, a.ppu.in_vblank>>,
                s0 |-> <<b.ppu.sprite_0_hit, a.ppu.sprite_0_hit>>,
                ov |-> <<b.ppu.sprite_overflow, a.ppu.sprite_overflow>>]
      flips == o.frame_flips + (IF b.ppu.state.odd_frame # st.odd_frame THEN 1 ELSE 0)
      rend == o.frame_rend \cup {a.ppu.rendering_enabled}
      \* a call of Mapper::irq shows when it would change the mapper
      shows == cart.mapper_type = "Mmc3" /\ MapperIrq(b.mapper).m # b.mapper
      clock == [scanline |-> st.scanline, cycle |-> st.cycle,
                en |-> b.ppu.rendering_enabled, clocked |-> a.mapper # b.mapper]
  IN [o EXCEPT
        !.clk = IF shows /\ (st.cycle = 260 \/ clock.clocked) THEN Append(o.clk, clock)
                ELSE o.clk,
        !.dots = o.dots + 1,
        !.total_dots = o.total_dots + 1,
        !.dma_dots = IF o.in_dma THEN o.dma_dots + 1 ELSE o.dma_dots,
        !.log = IF notable THEN Append(o.log, entry) ELSE o.log,
        !.frame_no = IF wrapped THEN o.frame_no + 1 ELSE o.frame_no,
        !.frame_dots = IF wrapped THEN 0 ELSE o.frame_dots + 1,
        !.frame_flips = IF wrapped THEN 0 ELSE flips,
        !.frame_rend = IF wrapped THEN {} ELSE rend,
        !.last_len = IF wrapped THEN o.frame_dots + 1 ELSE o.last_len,
        !.last_flips = IF wrapped THEN flips ELSE o.last_flips,
        !.last_rend = IF wrapped THEN rend ELSE o.last_rend,
        !.prev_len = IF wrapped THEN o.last_len ELSE o.prev_len,
        !.prev_rend = IF wrapped THEN o.last_rend ELSE o.prev_rend]

\* one dot of the PPU, observed
Dot(s) ==
  LET a == DotStep(s) IN [a EXCEPT !.o = Observe(s.o, s, a)]

\* the `for _ in 0..n` loop of Ppu::tick
RECURSIVE RunDots(_, _)
RunDots(s, n) ==
  IF s.panic # "" THEN s
  ELSE IF n = 1 THEN Dot(s)
  ELSE IF n = 0 THEN s
  ELSE RunDots(RunDots(s, n \div 2), n - (n \div 2))

\* Ppu::tick: the system after ppu_cycles_to_tick dots and the TickEvent returned
\* the TickEvent Ppu::tick returns once its loop has led to the system a
TickEvent(vblank_pre_ticks, a) ==
  [s |-> a,
   event |-> IF ~vblank_pre_ticks /\ a.ppu.in_vblank THEN "EnteredVblank"
             ELSE IF a.irq THEN "TriggerIrq"
             ELSE "Nothing"]

\* Ppu::tick: the system after ppu_cycles_to_tick dots and the TickEvent returned
PpuTick(s, ppu_cycles_to_tick) ==
  TickEvent(s.ppu.in_vblank, RunDots([s EXCEPT !.irq = FALSE], ppu_cycles_to_tick))

DmaCyclesEven == 513
DmaCyclesOdd == 514

\* cpu_read_register with a $2002 read that leaves the write toggle alone
CpuReadRegisterKeepsToggle(s, address) ==
  LET p == s.ppu IN
  IF address = 2
  THEN [s |-> [s EXCEPT !.ppu.in_vblank = FALSE],
        val |-> (IF p.in_vblank THEN 128 ELSE 0) + (IF p.sprite_0_hit THEN 64 ELSE 0)
                + (IF p.sprite_overflow THEN 32 ELSE 0)]
  ELSE IF address = 4
  THEN [s |-> s, val |-> p.oam[p.oam_address]]
  ELSE IF address = 7
  THEN LET a == p.v % 16384
           value == IF a <= 8191 THEN MapperRead8(s, a).val
                    ELSE IF a <= 12287 THEN VramRead(p, s.mapper, a)
                    ELSE IF a <= 16127 THEN VramRead(p, s.mapper, a - 4096)
                    ELSE p.palette[PaletteMirror(a) % 32]
           return_value == IF a <= 16127 THEN p.data_buffer ELSE value
       IN [s |-> [s EXCEPT !.ppu = IncV([p EXCEPT !.data_buffer = value])],
           val |-> return_value]
  ELSE [s |-> s, val |-> 0]

\* Ppu::cpu_read_register
CpuReadRegister(s, address) ==
  LET p == s.ppu IN
  IF address = 2
  THEN [s |-> [s EXCEPT !.ppu.in_vblank = FALSE, !.ppu.w_latch = TRUE],
        val |-> (IF p.in_vblank THEN 128 ELSE 0) + (IF p.sprite_0_hit THEN 64 ELSE 0)
                + (IF p.sprite_overflow THEN 32 ELSE 0)]
  ELSE IF address = 4
  THEN [s |-> s, val |-> p.oam[p.oam_address]]
  ELSE IF address = 7
  THEN LET a == p.v % 16384
           value == IF a <= 8191 THEN MapperRead8(s, a).val
                    ELSE IF a <= 12287 THEN VramRead(p, s.mapper, a)
                    ELSE IF a <= 16127 THEN VramRead(p, s.mapper, a - 4096)
                    ELSE p.palette[PaletteMirror(a) % 32]
           return_value == IF a <= 16127 THEN p.data_buffer ELSE value
       IN [s |-> [s EXCEPT !.ppu = IncV([p EXCEPT !.data_buffer = value])],
           val |-> return_value]
  ELSE [s |-> s, val |-> 0]

\* cpu_write_register with a first $2006 write that keeps all 8 bits
CpuWriteRegisterUnmasked(s, val, address) ==
  LET p == s.ppu IN
  IF address = 0
  THEN [s EXCEPT !.ppu =
         [p EXCEPT !.vram_addr_inc = IF Bit(val, 2) = 1 THEN 32 ELSE 1,
                   !.sprite_table_address_8 = IF Bit(val, 3) = 1 THEN 4096 ELSE 0,
                   !.background_table_address = IF Bit(val, 4) = 1 THEN 4096 ELSE 0,
                   !.sprite_size_16 = Bit(val, 5) = 1,
                   !.nmi_at_start_of_vblank = Bit(val, 7) = 1,
                   !.t = BitOr(BitAnd(p.t, 62463), (val % 4) * 1024)]]
  ELSE IF address = 1
  THEN [s EXCEPT !.ppu =
         [p EXCEPT !.show_background_left = Bit(val, 1) = 1,
                   !.show_sprites_left = Bit(val, 2) = 1,
                   !.show_background = Bit(val, 3) = 1,
                   !.show_sprites = Bit(val, 4) = 1,
                   !.rendering_enabled = (Bit(val, 3) = 1 \/ Bit(val, 4) = 1)]]
  ELSE IF address = 3
  THEN [s EXCEPT !.ppu.oam_address = val]
  ELSE IF address = 4
  THEN [s EXCEPT !.ppu.oam[p.oam_address] = val,
                 !.ppu.oam_address = WrapAdd8(p.oam_address, 1)]
  ELSE IF address = 5
  THEN IF p.w_latch
       THEN [s EXCEPT !.ppu.t = BitOr(BitAnd(p.t, 65504), val \div 8),
                      !.ppu.fine_x = val % 8,
                      !.ppu.w_latch = FALSE]
       ELSE [s EXCEPT !.ppu.t = BitOr(BitOr(BitAnd(p.t, 3103), (val % 8) * 4096),
                                      (val \div 8) * 32),
                      !.ppu.w_latch = TRUE]
  ELSE IF address = 6
  THEN IF p.w_latch
       THEN [s EXCEPT !.ppu.t = BitOr(BitAnd(p.t, 255), val * 256),
                      !.ppu.w_latch = FALSE]
       ELSE LET t1 == BitOr(BitAnd(p.t, 65280), val)
            IN [s EXCEPT !.ppu.t = t1, !.ppu.v = t1, !.ppu.w_latch = TRUE]
  ELSE IF address = 7
  THEN LET a == p.v % 16384
           p1 == IF a <= 12287 THEN VramWrite(p, s.mapper, val, a)
                 ELSE IF a <= 16127 THEN VramWrite(p, s.mapper, val, a - 4096)
                 ELSE [p EXCEPT !.palette[PaletteMirror(a) % 32] = val]
       IN IF a <= 8191 THEN [MapperWrite8(s, val, a) EXCEPT !.ppu = IncV(@)]
          ELSE [s EXCEPT !.ppu = IncV(p1)]
  ELSE s

\* Ppu::cpu_write_register
CpuWriteRegister(s, val, address) ==
  LET p == s.ppu IN
  IF address = 0
  THEN [s EXCEPT !.ppu =
         [p EXCEPT !.vram_addr_inc = IF Bit(val, 2) = 1 THEN 32 ELSE 1,
                   !.sprite_table_address_8 = IF Bit(val, 3) = 1 THEN 4096 ELSE 0,
                   !.background_table_address = IF Bit(val, 4) = 1 THEN 4096 ELSE 0,
                   !.sprite_size_16 = Bit(val, 5) = 1,
                   !.nmi_at_start_of_vblank = Bit(val, 7) = 1,
                   !.t = BitOr(BitAnd(p.t, 62463), (val % 4) * 1024)]]
  ELSE IF address = 1
  THEN [s EXCEPT !.ppu =
         [p EXCEPT !.show_background_left = Bit(val, 1) = 1,
                   !.show_sprites_left = Bit(val, 2) = 1,
                   !.show_background = Bit(val, 3) = 1,
                   !.show_sprites = Bit(val, 4) = 1,
                   !.rendering_enabled = (Bit(val, 3) = 1 \/ Bit(val, 4) = 1)]]
  ELSE IF address = 3
  THEN [s EXCEPT !.ppu.oam_address = val]
  ELSE IF address = 4
  THEN [s EXCEPT !.ppu.oam[p.oam_address] = val,
                 !.ppu.oam_address = WrapAdd8(p.oam_address, 1)]
  ELSE IF address = 5
  THEN IF p.w_latch
       THEN [s EXCEPT !.ppu.t = BitOr(BitAnd(p.t, 65504), val \div 8),
                      !.ppu.fine_x = val % 8,
                      !.ppu.w_latch = FALSE]
       ELSE [s EXCEPT !.ppu.t = BitOr(BitOr(BitAnd(p.t, 3103), (val % 8) * 4096),
                                      (val \div 8) * 32),
                      !.ppu.w_latch = TRUE]
  ELSE IF address = 6
  THEN IF p.w_latch
       THEN [s EXCEPT !.ppu.t = BitOr(BitAnd(p.t, 255), (val % 64) * 256),
                      !.ppu.w_latch = FALSE]
       ELSE LET t1 == BitOr(BitAnd(p.t, 65280), val)
            IN [s EXCEPT !.ppu.t = t1, !.ppu.v = t1, !.ppu.w_latch = TRUE]
  ELSE IF address = 7
  THEN LET a == p.v % 16384
           p1 == IF a <= 12287 THEN VramWrite(p, s.mapper, val, a)
                 ELSE IF a <= 16127 THEN VramWrite(p, s.mapper, val, a - 4096)
                 ELSE [p EXCEPT !.palette[PaletteMirror(a) % 32] = val]
       IN IF a <= 8191 THEN [MapperWrite8(s, val, a) EXCEPT !.ppu = IncV(@)]
          ELSE [s EXCEPT !.ppu = IncV(p1)]
  ELSE s

\* ------------------------------------------------------------------------
\* Joypad (nes/src/joypad.rs)
\* ------------------------------------------------------------------------
\* Joypad::default
JoypadNew == [state |-> 0, out |-> 0]

\* a read that shifts the other way: Right first
JoypadReadMsbFirst(j) == [j |-> [j EXCEPT !.out = (j.out * 2) % 256], val |-> j.out \div 128]

\* Joypad::read
JoypadRead(j) == [j |-> [j EXCEPT !.out = j.out \div 2], val |-> j.out % 2]

\* Joypad::strobe
JoypadStrobe(j, val) == IF val % 2 = 1 THEN [j EXCEPT !.out = j.state] ELSE j

\* Joypad::on_event with Press(b) or Release(b); b is the bit of the button
JoypadOnEvent(j, press, b) ==
  [j EXCEPT !.state = IF press THEN BitOr(j.state, b) ELSE BitAnd(j.state, 255 - b)]

\* ------------------------------------------------------------------------
\* CPU bus (nes/src/nesbus.rs)
\* ------------------------------------------------------------------------
\* NesBus::map: the device
MapDevice(address) ==
  IF address <= 8191 THEN "Ram"
  ELSE IF address <= 16383 THEN "Ppu"
  ELSE IF address = 16404 THEN "PpuOamDma"
  ELSE IF address <= 16405 THEN "Apu"
  ELSE IF address <= 16407 THEN "Joypad"
  ELSE IF address <= 16415 THEN "CpuTest"
  ELSE "Cartridge"

\* NesBus::map: the mapped address
MapAddress(address) ==
  IF address <= 8191 THEN address % 2048
  ELSE IF address <= 16383 THEN address % 8
  ELSE IF address = 16404 THEN address
  ELSE IF address <= 16405 THEN address - 16384
  ELSE IF address <= 16407 THEN address
  ELSE IF address <= 16415 THEN address - 16408
  ELSE address

RamByte(r, mapped) == IF mapped \in DOMAIN r THEN r[mapped] ELSE 0

\* NesBus::read8: the system after the read and the byte read
BusRead8(s, address) ==
  LET device == MapDevice(address)
      mapped_address == MapAddress(address)
  IN
  IF device = "Ram" THEN [s |-> s, val |-> RamByte(s.ram, mapped_address)]
  ELSE IF device = "Ppu" THEN CpuReadRegister(s, mapped_address)
  ELSE IF device = "Joypad"
  THEN IF address = 16406
       THEN LET r == JoypadRead(s.joypad) IN [s |-> [s EXCEPT !.joypad = r.j], val |-> r.val]
       ELSE [s |-> s, val |-> 0]
  ELSE IF device = "Cartridge" THEN MapperRead8(s, mapped_address)
  ELSE [s |-> s, val |-> 0]

\* the copy loop of Ppu::cpu_oam_dma from the k-th byte of the page on; each
\* byte is read through the bus when the iterator yields it
RECURSIVE DmaCopy(_, _, _, _)

\* the dots cpu_oam_dma ticks the PPU for
DmaDots(st) == IF EvenFrame(st) THEN DmaCyclesEven * 3 ELSE DmaCyclesOdd * 3

\* cpu_oam_dma returning: s is the system it was called in, s1 the system
\* after the copy loop, r what its self.tick gave (the event is dropped)
DmaReturn(s, page_start, s1, r) ==
  [r.s EXCEPT !.irq = s.irq,
              !.o.in_dma = FALSE,
              !.o.dma_total = s.o.dma_total + 1,
              !.o.dma = Append(s.o.dma,
                   [page_start |-> page_start,
                    ptr_before |-> s.ppu.oam_address,
                    ptr_after_loop |-> s1.ppu.oam_address,
                    ptr_after |-> r.s.ppu.oam_address,
                    oam_after |-> s1.ppu.oam,
                    even_frame |-> EvenFrame(s1.ppu.state),
                    frame_no |-> s.o.frame_no, dots |-> DmaDots(s1.ppu.state)])]

\* cpu_oam_dma after its copy loop, unless a read of the iterator has
\* panicked: the pointer is zeroed and the PPU ticked
DmaTick(s, page_start, s1) ==
  IF s1.panic # "" THEN s1
  ELSE DmaReturn(s, page_start, s1,
                 PpuTick([s1 EXCEPT !.ppu.oam_address = 0, !.o.in_dma = TRUE],
                         DmaDots(s1.ppu.state)))

\* Ppu::cpu_oam_dma, called by NesBus::write8 with the iterator over the page
CpuOamDma(s, page_start) == DmaTick(s, page_start, DmaCopy(s, page_start, 0, 256))

\* iterations k .. k + n - 1 of the copy loop of cpu_oam_dma over the
\* iterator NesBus::write8 builds
DmaCopy(s, page_start, k, n) ==
  IF s.panic # "" THEN s
  ELSE IF n = 1
  THEN LET r == BusRead8(s, page_start + k)
           at == r.s.ppu.oam_address
       IN [r.s EXCEPT !.ppu.oam[at] = r.val,
                      !.ppu.oam_address = WrapAdd8(at, 1)]
  ELSE DmaCopy(DmaCopy(s, page_start, k, n \div 2),
               page_start, k + (n \div 2), n - (n \div 2))

\* NesBus::write8
BusWrite8(s, val, address) ==
  LET device == MapDevice(address)
      mapped_address == MapAddress(address)
  IN
  IF device = "Ram"
  THEN [s EXCEPT !.ram = [x \in DOMAIN s.ram \cup {mapped_address} |->
                            IF x = mapped_address THEN val ELSE s.ram[x]]]
  ELSE IF device = "Ppu" THEN CpuWriteRegister(s, val, mapped_address)
  ELSE IF device = "PpuOamDma"
  THEN LET page_start == val * 256 IN
       IF MapDevice(page_start) = "Ppu"
       THEN [s EXCEPT !.panic = "already borrowed: BorrowMutError"]
       ELSE CpuOamDma(s, page_start)
  ELSE IF device = "Joypad"
  THEN IF address = 16406 THEN [s EXCEPT !.joypad = JoypadStrobe(s.joypad, val)] ELSE s
  ELSE IF device = "Cartridge" THEN MapperWrite8(s, val, address)
  ELSE s

\* ------------------------------------------------------------------------
\* MOS 6502 (mos6502/src/cpu.rs, instructions.rs, address_mode.rs)
\* ------------------------------------------------------------------------
Flags == {"C", "Z", "I", "D", "B", "UNUSED", "V", "N"}

\* bitflags! Flag: the bit of each flag
FlagBit(f) ==
  CASE f = "C" -> 1 [] f = "Z" -> 2 [] f = "I" -> 4 [] f = "D" -> 8
    [] f = "B" -> 16 [] f = "UNUSED" -> 32 [] f = "V" -> 64 [] f = "N" -> 128

RECURSIVE SumBits(_)
SumBits(fs) ==
  IF fs = {} THEN 0
  ELSE LET f == CHOOSE x \in fs : TRUE IN FlagBit(f) + SumBits(fs \ {f})

\* Flag::bits
FlagsBits(fs) == SumBits(fs)

\* Flag::from_bits_truncate
FlagsFromBits(b) == {f \in Flags : BitAnd(b, FlagBit(f)) # 0}

NMI_VECTOR == 65530
RESET_VECTOR == 65532
IRQ_VECTOR == 65534
STACK_TOP == 256

\* Cpu::new
CpuNew ==
  [pc |-> 0, flags |-> {}, regs |-> [r \in {"AC", "X", "Y", "SP"} |-> 0], extra_cycles |-> 0]

\* the instruction descriptors
Imp(opcode, cycles) == [opcode |-> opcode, mode |-> "Impl", cycles |-> cycles, size |-> 1]
Two(opcode, cycles, mode) == [opcode |-> opcode, mode |-> mode, cycles |-> cycles, size |-> 2]
Thr(opcode, cycles, mode) == [opcode |-> opcode, mode |-> mode, cycles |-> cycles, size |-> 3]

\* Instruction::disassemble: the descriptor of every opcode byte the match
\* lists; the other bytes take its last arm, which panics
Disassemble(opbyte) ==
  CASE opbyte \in {2, 18, 34, 50, 66, 82, 98, 114, 146, 178, 210, 242} -> Imp("JAM", 0)
    [] opbyte = 0 -> Imp("BRK", 7)
    [] opbyte = 64 -> Imp("RTI", 6)
    [] opbyte = 56 -> Imp("SEC", 2)
    [] opbyte = 248 -> Imp("SED", 2)
    [] opbyte = 120 -> Imp("SEI", 2)
    [] opbyte = 24 -> Imp("CLC", 2)
    [] opbyte = 216 -> Imp("CLD", 2)
    [] opbyte = 88 -> Imp("CLI", 2)
    [] opbyte = 184 -> Imp("CLV", 2)
    [] opbyte = 170 -> Imp("TAX", 2)
    [] opbyte = 168 -> Imp("TAY", 2)
    [] opbyte = 186 -> Imp("TSX", 2)
    [] opbyte = 138 -> Imp("TXA", 2)
    [] opbyte = 154 -> Imp("TXS", 2)
    [] opbyte = 152 -> Imp("TYA", 2)
    [] opbyte = 36 -> Two("BIT", 3, "Zero")
    [] opbyte = 44 -> Thr("BIT", 4, "Abs")
    [] opbyte = 105 -> Two("ADC", 2, "Imm")
    [] opbyte = 101 -> Two("ADC", 3, "Zero")
    [] opbyte = 117 -> Two("ADC", 4, "ZeroX")
    [] opbyte = 109 -> Thr("ADC", 4, "Abs")
    [] opbyte = 125 -> Thr("ADC", 4, "AbsX")
    [] opbyte = 121 -> Thr("ADC", 4, "AbsY")
    [] opbyte = 97 -> Two("ADC", 6, "IndX")
    [] opbyte = 113 -> Two("ADC", 5, "IndY")
    [] opbyte = 233 -> Two("SBC", 2, "Imm")
    [] opbyte = 229 -> Two("SBC", 3, "Zero")
    [] opbyte = 245 -> Two("SBC", 4, "ZeroX")
    [] opbyte = 237 -> Thr("SBC", 4, "Abs")
    [] opbyte = 253 -> Thr("SBC", 4, "AbsX")
    [] opbyte = 249 -> Thr("SBC", 4, "AbsY")
    [] opbyte = 225 -> Two("SBC", 6, "IndX")
    [] opbyte = 241 -> Two("SBC", 5, "IndY")
    [] opbyte = 162 -> Two("LDX", 2, "Imm")
    [] opbyte = 166 -> Two("LDX", 3, "Zero")
    [] opbyte = 182 -> Two("LDX", 4, "ZeroY")
    [] opbyte = 174 -> Thr("LDX", 4, "Abs")
    [] opbyte = 190 -> Thr("LDX", 4, "AbsY")
    [] opbyte = 73 -> Two("EOR", 2, "Imm")
    [] opbyte = 69 -> Two("EOR", 3, "Zero")
    [] opbyte = 85 -> Two("EOR", 4, "ZeroX")
    [] opbyte = 77 -> Thr("EOR", 4, "Abs")
    [] opbyte = 93 -> Thr("EOR", 4, "AbsX")
    [] opbyte = 89 -> Thr("EOR", 4, "AbsY")
    [] opbyte = 65 -> Two("EOR", 6, "IndX")
    [] opbyte = 81 -> Two("EOR", 5, "IndY")
    [] opbyte = 9 -> Two("ORA", 2, "Imm")
    [] opbyte = 5 -> Two("ORA", 3, "Zero")
    [] opbyte = 21 -> Two("ORA", 4, "ZeroX")
    [] opbyte = 13 -> Thr("ORA", 4, "Abs")
    [] opbyte = 29 -> Thr("ORA", 4, "AbsX")
    [] opbyte = 25 -> Thr("ORA", 4, "AbsY")
    [] opbyte = 1 -> Two("ORA", 6, "IndX")
    [] opbyte = 17 -> Two("ORA", 5, "IndY")
    [] opbyte = 41 -> Two("AND", 2, "Imm")
    [] opbyte = 37 -> Two("AND", 3, "Zero")
    [] opbyte = 53 -> Two("AND", 4, "ZeroX")
    [] opbyte = 45 -> Thr("AND", 4, "Abs")
    [] opbyte = 61 -> Thr("AND", 4, "AbsX")
    [] opbyte = 57 -> Thr("AND", 4, "AbsY")
    [] opbyte = 33 -> Two("AND", 6, "IndX")
    [] opbyte = 49 -> Two("AND", 5, "IndY")
    [] opbyte = 160 -> Two("LDY", 2, "Imm")
    [] opbyte = 164 -> Two("LDY", 3, "Zero")
    [] opbyte = 180 -> Two("LDY", 4, "ZeroX")
    [] opbyte = 172 -> Thr("LDY", 4, "Abs")
    [] opbyte = 188 -> Thr("LDY", 4, "AbsX")
    [] opbyte = 169 -> Two("LDA", 2, "Imm")
    [] opbyte = 165 -> Two("LDA", 3, "Zero")
    [] opbyte = 181 -> Two("LDA", 4, "ZeroX")
    [] opbyte = 173 -> Thr("LDA", 4, "Abs")
    [] opbyte = 189 -> Thr("LDA", 4, "AbsX")
    [] opbyte = 185 -> Thr("LDA", 4, "AbsY")
    [] opbyte = 161 -> Two("LDA", 6, "IndX")
    [] opbyte = 177 -> Two("LDA", 5, "IndY")
    [] opbyte = 133 -> Two("STA", 3, "Zero")
    [] opbyte = 149 -> Two("STA", 4, "ZeroX")
    [] opbyte = 141 -> Thr("STA", 4, "Abs")
    [] opbyte = 157 -> Thr("STA", 5, "AbsX")
    [] opbyte = 153 -> Thr("STA", 5, "AbsY")
    [] opbyte = 129 -> Two("STA", 6, "IndX")
    [] opbyte = 145 -> Two("STA", 6, "IndY")
    [] opbyte = 134 -> Two("STX", 3, "Zero")
    [] opbyte = 150 -> Two("STX", 4, "ZeroY")
    [] opbyte = 142 -> Thr("STX", 4, "Abs")
    [] opbyte = 132 -> Two("STY", 3, "Zero")
    [] opbyte = 148 -> Two("STY", 4, "ZeroX")
    [] opbyte = 140 -> Thr("STY", 4, "Abs")
    [] opbyte = 76 -> Thr("JMP", 3, "Abs")
    [] opbyte = 108 -> Thr("JMP", 5, "Ind")
    [] opbyte = 32 -> Thr("JSR", 6, "Abs")
    [] opbyte = 96 -> Imp("RTS", 6)
    [] opbyte = 208 -> Two("BNE", 2, "Rel")
    [] opbyte = 240 -> Two("BEQ", 2, "Rel")
    [] opbyte = 16 -> Two("BPL", 2, "Rel")
    [] opbyte = 144 -> Two("BCC", 2, "Rel")
    [] opbyte = 176 -> Two("BCS", 2, "Rel")
    [] opbyte = 48 -> Two("BMI", 2, "Rel")
    [] opbyte = 80 -> Two("BVC", 2, "Rel")
    [] opbyte = 112 -> Two("BVS", 2, "Rel")
    [] opbyte = 202 -> Imp("DEX", 2)
    [] opbyte = 136 -> Imp("DEY", 2)
    [] opbyte = 232 -> Imp("INX", 2)
    [] opbyte = 200 -> Imp("INY", 2)
    [] opbyte = 198 -> Two("DEC", 5, "Zero")
    [] opbyte = 214 -> Two("DEC", 6, "ZeroX")
    [] opbyte = 206 -> Thr("DEC", 6, "Abs")
    [] opbyte = 222 -> Thr("DEC", 7, "AbsX")
    [] opbyte = 230 -> Two("INC", 5, "Zero")
    [] opbyte = 246 -> Two("INC", 6, "ZeroX")
    [] opbyte = 238 -> Thr("INC", 6, "Abs")
    [] opbyte = 254 -> Thr("INC", 7, "AbsX")
    [] opbyte \in {26, 58, 234} -> Imp("NOP", 2)
    [] opbyte \in {128, 130, 137, 194, 226} -> Two("NOP", 2, "Nop")
    [] opbyte \in {4, 68, 100} -> Two("NOP", 3, "Nop")
    [] opbyte \in {20, 52, 84, 116, 212, 244} -> Two("NOP", 4, "Nop")
    [] opbyte = 12 -> Thr("NOP", 4, "Nop")
    [] opbyte \in {28, 60, 92, 124, 220, 252} -> Thr("NOP", 4, "AbsX")
    [] opbyte = 192 -> Two("CPY", 2, "Imm")
    [] opbyte = 196 -> Two("CPY", 3, "Zero")
    [] opbyte = 204 -> Thr("CPY", 4, "Abs")
    [] opbyte = 224 -> Two("CPX", 2, "Imm")
    [] opbyte = 228 -> Two("CPX", 3, "Zero")
    [] opbyte = 236 -> Thr("CPX", 4, "Abs")
    [] opbyte = 201 -> Two("CMP", 2, "Imm")
    [] opbyte = 197 -> Two("CMP", 3, "Zero")
    [] opbyte = 213 -> Two("CMP", 4, "ZeroX")
    [] opbyte = 205 -> Thr("CMP", 4, "Abs")
    [] opbyte = 221 -> Thr("CMP", 4, "AbsX")
    [] opbyte = 217 -> Thr("CMP", 4, "AbsY")
    [] opbyte = 193 -> Two("CMP", 6, "IndX")
    [] opbyte = 209 -> Two("CMP", 5, "IndY")
    [] opbyte = 74 -> Imp("LSR", 2)
    [] opbyte = 70 -> Two("LSR", 5, "Zero")
    [] opbyte = 86 -> Two("LSR", 6, "ZeroX")
    [] opbyte = 78 -> Thr("LSR", 6, "Abs")
    [] opbyte = 94 -> Thr("LSR", 7, "AbsX")
    [] opbyte = 10 -> Imp("ASL", 2)
    [] opbyte = 6 -> Two("ASL", 5, "Zero")
    [] opbyte = 22 -> Two("ASL", 6, "ZeroX")
    [] opbyte = 14 -> Thr("ASL", 6, "Abs")
    [] opbyte = 30 -> Thr("ASL", 7, "AbsX")
    [] opbyte = 42 -> Imp("ROL", 2)
    [] opbyte = 38 -> Two("ROL", 5, "Zero")
    [] opbyte = 54 -> Two("ROL", 6, "ZeroX")
    [] opbyte = 46 -> Thr("ROL", 6, "Abs")
    [] opbyte = 62 -> Thr("ROL", 7, "AbsX")
    [] opbyte = 106 -> Imp("ROR", 2)
    [] opbyte = 102 -> Two("ROR", 5, "Zero")
    [] opbyte = 118 -> Two("ROR", 6, "ZeroX")
    [] opbyte = 110 -> Thr("ROR", 6, "Abs")
    [] opbyte = 126 -> Thr("ROR", 7, "AbsX")
    [] opbyte = 72 -> Imp("PHA", 3)
    [] opbyte = 104 -> Imp("PLA", 4)
    [] opbyte = 8 -> Imp("PHP", 3)
    [] opbyte = 40 -> Imp("PLP", 4)
    [] opbyte = 167 -> Two("LAX", 3, "Zero")
    [] opbyte = 183 -> Two("LAX", 4, "ZeroY")
    [] opbyte = 175 -> Thr("LAX", 4, "Abs")
    [] opbyte = 191 -> Thr("LAX", 4, "AbsY")
    [] opbyte = 163 -> Two("LAX", 6, "IndX")
    [] opbyte = 179 -> Two("LAX", 5, "IndY")
    [] opbyte = 135 -> Two("SAX", 3, "Zero")
    [] opbyte = 151 -> Two("SAX", 4, "ZeroY")
    [] opbyte = 143 -> Thr("SAX", 4, "Abs")
    [] opbyte = 131 -> Two("SAX", 6, "IndX")
    [] opbyte = 235 -> Two("USBC", 2, "Imm")
    [] opbyte = 199 -> Two("DCP", 5, "Zero")
    [] opbyte = 215 -> Two("DCP", 6, "ZeroX")
    [] opbyte = 207 -> Thr("DCP", 6, "Abs")
    [] opbyte = 223 -> Thr("DCP", 7, "AbsX")
    [] opbyte = 219 -> Thr("DCP", 7, "AbsY")
    [] opbyte = 195 -> Two("DCP", 8, "IndX")
    [] opbyte = 211 -> Two("DCP", 8, "IndY")
    [] opbyte = 231 -> Two("ISC", 5, "Zero")
    [] opbyte = 247 -> Two("ISC", 6, "ZeroX")
    [] opbyte = 239 -> Thr("ISC", 6, "Abs")
    [] opbyte = 255 -> Thr("ISC", 7, "AbsX")
    [] opbyte = 251 -> Thr("ISC", 7, "AbsY")
    [] opbyte = 227 -> Two("ISC", 8, "IndX")
    [] opbyte = 243 -> Two("ISC", 4, "IndY")
    [] opbyte = 7 -> Two("SLO", 5, "Zero")
    [] opbyte = 23 -> Two("SLO", 6, "ZeroX")
    [] opbyte = 15 -> Thr("SLO", 6, "Abs")
    [] opbyte = 31 -> Thr("SLO", 7, "AbsX")
    [] opbyte = 27 -> Thr("SLO", 7, "AbsY")
    [] opbyte = 3 -> Two("SLO", 8, "IndX")
    [] opbyte = 19 -> Two("SLO", 8, "IndY")
    [] opbyte = 39 -> Two("RLA", 5, "Zero")
    [] opbyte = 55 -> Two("RLA", 6, "ZeroX")
    [] opbyte = 47 -> Thr("RLA", 6, "Abs")
    [] opbyte = 63 -> Thr("RLA", 7, "AbsX")
    [] opbyte = 59 -> Thr("RLA", 7, "AbsY")
    [] opbyte = 35 -> Two("RLA", 8, "IndX")
    [] opbyte = 51 -> Two("RLA", 8, "IndY")
    [] opbyte = 71 -> Two("SRE", 5, "Zero")
    [] opbyte = 87 -> Two("SRE", 6, "ZeroX")
    [] opbyte = 79 -> Thr("SRE", 6, "Abs")
    [] opbyte = 95 -> Thr("SRE", 7, "AbsX")
    [] opbyte = 91 -> Thr("SRE", 7, "AbsY")
    [] opbyte = 67 -> Two("SRE", 8, "IndX")
    [] opbyte = 83 -> Two("SRE", 8, "IndY")
    [] opbyte = 103 -> Two("RRA", 5, "Zero")
    [] opbyte = 119 -> Two("RRA", 6, "ZeroX")
    [] opbyte = 111 -> Thr("RRA", 6, "Abs")
    [] opbyte = 127 -> Thr("RRA", 7, "AbsX")
    [] opbyte = 123 -> Thr("RRA", 7, "AbsY")
    [] opbyte = 99 -> Two("RRA", 8, "IndX")
    [] opbyte = 115 -> Two("RRA", 8, "IndY")
    [] opbyte = 218 -> Imp("NOP", 2)
    [] opbyte = 90 -> Imp("NOP", 2)
    [] opbyte = 250 -> Imp("NOP", 2)
    [] opbyte = 122 -> Imp("NOP", 2)
    [] opbyte = 11 -> Two("ANC", 2, "Imm")
    [] opbyte = 43 -> Two("ANC2", 2, "Imm")
    [] opbyte = 75 -> Two("ALR", 2, "Imm")
    [] OTHER -> Imp("Unknown opcode", 0)

\* a variant in which every instruction likes the extra cycle
NumExtraCyclesAlwaysOne(inst) == 1

\* Instruction::num_extra_cycles
NumExtraCycles(inst) ==
  IF inst.opcode \in {"DCP", "STA", "SLO", "RLA", "SRE", "RRA"} THEN 0
  ELSE IF inst.opcode = "ISC" THEN (IF inst.mode = "IndY" THEN 4 ELSE 0)
  ELSE 1

\* Cpu::add_extra_cycles
AddExtraCycles(s, cycles) == [s EXCEPT !.cpu.extra_cycles = s.cpu.extra_cycles + cycles]

\* AddressMode::cycle_aware_add
CycleAwareAdd(s, address, v, likes_extra_cycles) ==
  LET res == WrapAdd16(address, v)
  IN [s |-> IF res \div 256 # address \div 256 THEN AddExtraCycles(s, likes_extra_cycles) ELSE s,
      val |-> res]

\* the word made of the high byte read hi and the low byte
WithLow(hi, val_low) == [s |-> hi.s, val |-> hi.val * 256 + val_low]

\* the second bus read of a 16-bit read, after the low byte lo was read
ReadHigh(lo, address) == WithLow(BusRead8(lo.s, address), lo.val)

\* the index added to the pointer a that AddressMode::read16 gave
AddIndex(a, v, likes_extra_cycles) == CycleAwareAdd(a.s, a.val, v, likes_extra_cycles)

\* the bus read at the effective address a
ReadAt(a) == BusRead8(a.s, a.val)

\* a read16 whose second address carries into the next page
ModeRead16Carry(s, address_low, address_hi) ==
  ReadHigh(BusRead8(s, address_hi * 256 + address_low),
           address_hi * 256 + address_low + 1)

\* AddressMode::read16: the high byte is fetched from the same page
ModeRead16(s, address_low, address_hi) ==
  ReadHigh(BusRead8(s, address_hi * 256 + address_low),
           address_hi * 256 + WrapAdd8(address_low, 1))

\* AddressMode::resolve and resolve_zeropage: the system and the effective address
Resolve(s, mode, operands, num_extra_cycles) ==
  LET c == s.cpu IN
  CASE mode = "IndX" -> ModeRead16(s, WrapAdd8(operands[1], c.regs["X"]), 0)
    [] mode = "IndY" -> AddIndex(ModeRead16(s, operands[1], 0), c.regs["Y"], num_extra_cycles)
    [] mode = "Zero" -> [s |-> s, val |-> operands[1]]
    [] mode = "ZeroX" -> [s |-> s, val |-> WrapAdd8(operands[1], c.regs["X"])]
    [] mode = "ZeroY" -> [s |-> s, val |-> WrapAdd8(operands[1], c.regs["Y"])]
    [] mode = "Abs" -> [s |-> s, val |-> operands[2] * 256 + operands[1]]
    [] mode = "AbsX" -> CycleAwareAdd(s, operands[2] * 256 + operands[1], c.regs["X"],
                                      num_extra_cycles)
    [] mode = "AbsY" -> CycleAwareAdd(s, operands[2] * 256 + operands[1], c.regs["Y"],
                                      num_extra_cycles)
    [] mode = "Ind" -> ModeRead16(s, operands[1], operands[2])
    [] OTHER -> [s |-> [s EXCEPT !.panic = "explicit panic"], val |-> 0]

\* Instruction::resolve_operand_address
ResolveOperandAddress(s, inst, operands) ==
  Resolve(s, inst.mode, operands, NumExtraCycles(inst))

\* Instruction::resolve_operand_value
ResolveOperandValue(s, inst, operands) ==
  IF inst.mode = "Imm" THEN [s |-> s, val |-> operands[1]]
  ELSE ReadAt(ResolveOperandAddress(s, inst, operands))

\* Cpu::set_pc
SetPc(s, pc) == [s EXCEPT !.cpu.pc = pc, !.o.target = pc]

\* Cpu::inc_pc
IncPc(s, inc) == [s EXCEPT !.cpu.pc = s.cpu.pc + inc]

\* Cpu::flags_set_neg_zero
FlagsSetNegZero(s, res) ==
  [s EXCEPT !.cpu.flags =
     ((s.cpu.flags \ {"Z", "N"}) \cup (IF res = 0 THEN {"Z"} ELSE {}))
        \cup (IF Bit(res, 7) = 1 THEN {"N"} ELSE {})]

\* the `self.regs[Reg::SP] = self.regs[Reg::SP].wrapping_sub(1)` of Cpu::push
DecSp(w) == [w EXCEPT !.cpu.regs["SP"] = WrapSub8(w.cpu.regs["SP"], 1)]

\* Cpu::push
Push(s, val) == DecSp(BusWrite8(s, val, STACK_TOP + s.cpu.regs["SP"]))

\* a pop whose stack pointer does not wrap
PopNoWrap(s) ==
  LET s1 == [s EXCEPT !.cpu.regs["SP"] = s.cpu.regs["SP"] + 1]
  IN BusRead8(s1, STACK_TOP + s1.cpu.regs["SP"])

\* Cpu::pop
Pop(s) ==
  LET s1 == [s EXCEPT !.cpu.regs["SP"] = WrapAdd8(s.cpu.regs["SP"], 1)]
  IN BusRead8(s1, STACK_TOP + s1.cpu.regs["SP"])

\* Cpu::push_word
PushWord(s, val) == Push(Push(s, val \div 256), val % 256)

\* the second pop of Cpu::pop_word, after the low byte lo was popped
PopHigh(lo) == WithLow(Pop(lo.s), lo.val)

\* Cpu::pop_word
PopWord(s) == PopHigh(Pop(s))

\* Cpu::read16
Read16(s, address) == ReadHigh(BusRead8(s, address), address + 1)

\* a pull that loads bits 4 and 5 too
SetFlagsAll(s, val) ==
  [s EXCEPT !.cpu.flags = FlagsFromBits(val)]

\* Cpu::set_flags_ignore_5_4
SetFlagsIgnore54(s, val) ==
  [s EXCEPT !.cpu.flags = (FlagsFromBits(val) \ {"B", "UNUSED"})
                            \cup (s.cpu.flags \cap {"B", "UNUSED"})]

\* Cpu::calc_offset_pc
CalcOffsetPc(pc, offset) ==
  IF offset < 128 THEN WrapAdd16(pc, offset)
  ELSE WrapSub16(pc, 256 - offset)

\* a variant that never sees a page crossed
CrossedPageNever(pc_after, branch_target) == FALSE

\* whether the branch target lies on another page than the address after the branch
CrossedPage(pc_after, branch_target) == pc_after \div 256 # branch_target \div 256

\* Cpu::branch_if
BranchIf(s, offset, cond) ==
  IF offset = 0 THEN [s EXCEPT !.o.taken = cond]
  ELSE IF cond
  THEN LET s1 == IncPc(s, 2)
           branch_target == CalcOffsetPc(s1.cpu.pc, offset)
           s2 == IF CrossedPage(s1.cpu.pc, branch_target)
                 THEN AddExtraCycles(s1, 2) ELSE AddExtraCycles(s1, 1)
       IN [SetPc(s2, branch_target) EXCEPT !.o.taken = TRUE]
  ELSE s

\* set_pc to the word v that a read16 or a pop_word gave
SetPcTo(v) == SetPc(v.s, v.val)

\* Cpu::interrupt from `self.flags.insert(Flag::I)` on
InterruptJump(s2, vector) ==
  SetPcTo(Read16([s2 EXCEPT !.cpu.flags = s2.cpu.flags \cup {"I"}], vector))

\* Cpu::interrupt once the PC is pushed: the status is pushed with B clear
\* and UNUSED set
InterruptPushFlags(s1, vector) ==
  InterruptJump(Push(s1, FlagsBits((s1.cpu.flags \ {"B"}) \cup {"UNUSED"})), vector)

\* Cpu::interrupt
Interrupt(s, vector) == InterruptPushFlags(PushWord(s, s.cpu.pc), vector)

\* Cpu::nmi
Nmi(s) == Interrupt(s, NMI_VECTOR)

\* a variant taking the interrupt whatever the flags are
IrqAcceptedAlways(c) == TRUE

\* whether Cpu::irq takes the interrupt
IrqAccepted(c) == "I" \notin c.flags

\* Cpu::irq
Irq(s) == IF IrqAccepted(s.cpu) THEN Interrupt(s, IRQ_VECTOR) ELSE s

\* Cpu::reset
Reset(s) ==
  SetPcTo(Read16([s EXCEPT !.cpu.regs = [r \in {"AC", "X", "Y", "SP"} |->
                                           IF r = "SP" THEN 253 ELSE 0],
                           !.cpu.flags = {"I", "UNUSED"}],
                 RESET_VECTOR))

\* the condition a branch opcode tests
BranchCond(opcode, flags) ==
  CASE opcode = "BNE" -> "Z" \notin flags
    [] opcode = "BEQ" -> "Z" \in flags
    [] opcode = "BPL" -> "N" \notin flags
    [] opcode = "BMI" -> "N" \in flags
    [] opcode = "BCC" -> "C" \notin flags
    [] opcode = "BCS" -> "C" \in flags
    [] opcode = "BVC" -> "V" \notin flags
    [] opcode = "BVS" -> "V" \in flags

Branches == {"BNE", "BEQ", "BPL", "BMI", "BCC", "BCS", "BVC", "BVS"}

\* the `if pc_before_exec == self.pc && inst.opcode != Opcode::JMP` of Cpu::execute
AdvancesPc(pc_before_exec, pc, opcode) == pc_before_exec = pc /\ opcode # "JMP"

\* a store: the register is written at the operand address a
StoreReg(a, reg) == BusWrite8(a.s, a.s.cpu.regs[reg], a.val)

\* a load or pull: the register takes the value v and N, Z follow it
LoadReg(v, reg) == FlagsSetNegZero([v.s EXCEPT !.cpu.regs[reg] = v.val], v.val)

\* BRK from `self.flags.insert(Flag::I)` on
BrkJump(s2) ==
  SetPcTo(Read16([s2 EXCEPT !.cpu.flags = s2.cpu.flags \cup {"I"}], IRQ_VECTOR))

\* BRK once PC + 2 is pushed: the status is pushed with B and UNUSED set
BrkPushFlags(s1) == BrkJump(Push(s1, FlagsBits(s1.cpu.flags \cup {"B", "UNUSED"})))

\* bits::is_overflow
IsOverflow(res, lhs, rhs) ==
  IF lhs >= 128 /\ rhs >= 128 /\ res < 128 THEN TRUE
  ELSE lhs < 128 /\ rhs < 128 /\ res >= 128

\* Cpu::cmp
Cmp(s, reg, val) ==
  LET res == WrapSub8(s.cpu.regs[reg], val)
      overflow == s.cpu.regs[reg] < val
  IN FlagsSetNegZero(
       [s EXCEPT !.cpu.flags = IF ~overflow THEN @ \cup {"C"} ELSE @ \ {"C"}], res)

\* an addition that forgets the carry out of adding the carry in
AddWithCarryOneCarry(s, lhs, rhs) ==
  LET carry_in == IF "C" \in s.cpu.flags THEN 1 ELSE 0
      step1 == (lhs + carry_in) % 256
      res == (step1 + rhs) % 256
      carry2 == step1 + rhs > 255
      fv == IF IsOverflow(res, lhs, rhs) THEN s.cpu.flags \cup {"V"} ELSE s.cpu.flags \ {"V"}
      fc == IF carry2 THEN fv \cup {"C"} ELSE fv \ {"C"}
  IN [s |-> FlagsSetNegZero([s EXCEPT !.cpu.flags = fc], res), val |-> res]

\* Cpu::add_with_carry: the system with the flags set, and the sum
AddWithCarry(s, lhs, rhs) ==
  LET carry_in == IF "C" \in s.cpu.flags THEN 1 ELSE 0
      step1 == (lhs + carry_in) % 256
      carry1 == lhs + carry_in > 255
      res == (step1 + rhs) % 256
      carry2 == step1 + rhs > 255
      fv == IF IsOverflow(res, lhs, rhs) THEN s.cpu.flags \cup {"V"} ELSE s.cpu.flags \ {"V"}
      fc == IF carry1 \/ carry2 THEN fv \cup {"C"} ELSE fv \ {"C"}
  IN [s |-> FlagsSetNegZero([s EXCEPT !.cpu.flags = fc], res), val |-> res]

\* Cpu::shift_right, shift_left, rotate_left, rotate_right, picked by the
\* opcode that calls it: the system with the flags set, and the result
Shift(s, val, opcode) ==
  LET carry_bit_before_shift == IF "C" \in s.cpu.flags THEN 1 ELSE 0
      right == opcode \in {"LSR", "SRE", "ROR", "RRA"}
      rotate == opcode \in {"ROL", "RLA", "ROR", "RRA"}
      out == IF right THEN val % 2 = 1 ELSE val >= 128
      shifted == IF right THEN val \div 2 ELSE (val * 2) % 256
      res == IF ~rotate THEN shifted
             ELSE IF right THEN BitOr(shifted, carry_bit_before_shift * 128)
             ELSE BitOr(shifted, carry_bit_before_shift)
  IN [s |-> FlagsSetNegZero(
              [s EXCEPT !.cpu.flags = IF out THEN @ \cup {"C"} ELSE @ \ {"C"}], res),
      val |-> res]

\* Cpu::mv_with_neg_zero
MvWithNegZero(s, src, dst) ==
  FlagsSetNegZero([s EXCEPT !.cpu.regs[dst] = s.cpu.regs[src]], s.cpu.regs[src])

\* the arms of Cpu::execute that combine the operand value v.val with a
\* register: CMP, CPX, CPY, ADC, SBC, EOR, ORA, AND, BIT, ANC, ALR, LAX
AluOp(v, opcode) ==
  LET s == v.s
      val == v.val
      ac == v.s.cpu.regs["AC"]
  IN
  CASE opcode = "CMP" -> Cmp(s, "AC", val)
    [] opcode = "CPX" -> Cmp(s, "X", val)
    [] opcode = "CPY" -> Cmp(s, "Y", val)
    [] opcode = "ADC" ->
         LET r == AddWithCarry(s, ac, val) IN [r.s EXCEPT !.cpu.regs["AC"] = r.val]
    [] opcode \in {"SBC", "USBC"} ->
         LET r == AddWithCarry(s, ac, BitXor(val, 255)) IN [r.s EXCEPT !.cpu.regs["AC"] = r.val]
    [] opcode = "EOR" ->
         FlagsSetNegZero([s EXCEPT !.cpu.regs["AC"] = BitXor(ac, val)], BitXor(ac, val))
    [] opcode = "ORA" ->
         FlagsSetNegZero([s EXCEPT !.cpu.regs["AC"] = BitOr(ac, val)], BitOr(ac, val))
    [] opcode = "AND" ->
         FlagsSetNegZero([s EXCEPT !.cpu.regs["AC"] = BitAnd(ac, val)], BitAnd(ac, val))
    [] opcode = "BIT" ->
         [s EXCEPT !.cpu.flags =
            (((@ \ {"Z", "N", "V"}) \cup (IF BitAnd(ac, val) = 0 THEN {"Z"} ELSE {}))
               \cup (IF Bit(val, 7) = 1 THEN {"N"} ELSE {}))
               \cup (IF Bit(val, 6) = 1 THEN {"V"} ELSE {})]
    [] opcode \in {"ANC", "ANC2"} ->
         FlagsSetNegZero(
           [s EXCEPT !.cpu.flags = IF BitAnd(ac, val) >= 128 THEN @ \cup {"C"} ELSE @ \ {"C"}],
           BitAnd(ac, val))
    [] opcode = "ALR" ->
         FlagsSetNegZero(
           [s EXCEPT !.cpu.flags = IF BitAnd(ac, val) % 2 = 1 THEN @ \cup {"C"} ELSE @ \ {"C"}],
           BitAnd(ac, val))
    [] opcode = "LAX" ->
         FlagsSetNegZero([s EXCEPT !.cpu.regs["AC"] = val, !.cpu.regs["X"] = val], val)

\* the value a read-modify-write arm of Cpu::execute computes from the byte
\* it read, with the flags that computation sets
RmwResult(s, val, opcode) ==
  CASE opcode = "DEC" -> [s |-> FlagsSetNegZero(s, WrapSub8(val, 1)), val |-> WrapSub8(val, 1)]
    [] opcode = "INC" -> [s |-> FlagsSetNegZero(s, WrapAdd8(val, 1)), val |-> WrapAdd8(val, 1)]
    [] opcode = "DCP" -> [s |-> s, val |-> WrapSub8(val, 1)]
    [] opcode = "ISC" -> [s |-> s, val |-> WrapAdd8(val, 1)]
    [] OTHER -> Shift(s, val, opcode)

\* a read-modify-write arm once the byte v is read: the result is written
\* back, and the illegal opcodes then combine it with the accumulator
RmwStore(v, address, opcode) ==
  LET m == RmwResult(v.s, v.val, opcode)
      second == CASE opcode = "DCP" -> "CMP" [] opcode = "ISC" -> "SBC"
                  [] opcode = "SRE" -> "EOR" [] opcode = "SLO" -> "ORA"
                  [] opcode = "RLA" -> "AND" [] opcode = "RRA" -> "ADC"
                  [] OTHER -> "none"
  IN IF second = "none" THEN BusWrite8(m.s, m.val, address)
     ELSE AluOp([s |-> BusWrite8(m.s, m.val, address), val |-> m.val], second)

\* Instruction::resolve_operand_value_and_address and the arm that uses it
Rmw(a, opcode) == RmwStore(BusRead8(a.s, a.val), a.val, opcode)

\* a store of val at the operand address a
StoreVal(a, val) == BusWrite8(a.s, val, a.val)

\* the opcode arms of Cpu::execute
ExecuteOpcode(s, inst, operands) ==
  LET op == inst.opcode
      c == s.cpu
  IN
  CASE op = "JMP" ->
         SetPcTo(ResolveOperandAddress(s, inst, operands))
    [] op = "STA" ->
         StoreReg(ResolveOperandAddress(s, inst, operands), "AC")
    [] op = "LDA" ->
         LoadReg(ResolveOperandValue(s, inst, operands), "AC")
    [] op = "JAM" -> [s EXCEPT !.panic = "jammed"]
    [] op = "NOP" ->
         IF inst.mode = "AbsX" THEN ResolveOperandValue(s, inst, operands).s ELSE s
    [] op = "DEX" ->
         LET res == WrapSub8(c.regs["X"], 1)
         IN FlagsSetNegZero([s EXCEPT !.cpu.regs["X"] = res], res)
    [] op = "DEY" ->
         LET res == WrapSub8(c.regs["Y"], 1)
         IN FlagsSetNegZero([s EXCEPT !.cpu.regs["Y"] = res], res)
    [] op = "INX" ->
         LET res == WrapAdd8(c.regs["X"], 1)
         IN FlagsSetNegZero([s EXCEPT !.cpu.regs["X"] = res], res)
    [] op = "INY" ->
         LET res == WrapAdd8(c.regs["Y"], 1)
         IN FlagsSetNegZero([s EXCEPT !.cpu.regs["Y"] = res], res)
    [] op = "CLC" -> [s EXCEPT !.cpu.flags = c.flags \ {"C"}]
    [] op = "CLI" -> [s EXCEPT !.cpu.flags = c.flags \ {"I"}]
    [] op = "SEC" -> [s EXCEPT !.cpu.flags = c.flags \cup {"C"}]
    [] op = "SEI" -> [s EXCEPT !.cpu.flags = c.flags \cup {"I"}]
    [] op = "TXS" -> [s EXCEPT !.cpu.regs["SP"] = c.regs["X"]]
    [] op = "LDX" ->
         LoadReg(ResolveOperandValue(s, inst, operands), "X")
    [] op = "LDY" ->
         LoadReg(ResolveOperandValue(s, inst, operands), "Y")
    [] op = "STX" ->
         StoreReg(ResolveOperandAddress(s, inst, operands), "X")
    [] op = "JSR" ->
         SetPcTo(ResolveOperandAddress(PushWord(s, c.pc + 2), inst, operands))
    [] op = "RTS" ->
         LET ret == PopWord(s) IN SetPc(ret.s, ret.val + 1)
    [] op = "BRK" ->
         BrkPushFlags(PushWord(s, c.pc + 2))
    [] op = "RTI" ->
         LET flags == Pop(s)
         IN SetPcTo(PopWord(SetFlagsIgnore54(flags.s, flags.val)))
    [] op \in Branches -> BranchIf(s, operands[1], BranchCond(op, c.flags))
    [] op = "PHA" -> Push(s, c.regs["AC"])
    [] op = "PLA" ->
         LoadReg(Pop(s), "AC")
    [] op = "PHP" -> Push(s, FlagsBits(c.flags \cup {"B", "UNUSED"}))
    [] op = "PLP" -> LET res == Pop(s) IN SetFlagsIgnore54(res.s, res.val)
    [] op \in {"CMP", "CPX", "CPY", "ADC", "SBC", "USBC", "EOR", "ORA", "AND", "BIT",
               "ANC", "ANC2", "ALR", "LAX"} ->
         AluOp(ResolveOperandValue(s, inst, operands), op)
    [] op \in {"DEC", "INC", "DCP", "ISC", "SRE", "SLO", "RLA", "RRA"} ->
         Rmw(ResolveOperandAddress(s, inst, operands), op)
    [] op \in {"LSR", "ASL", "ROL", "ROR"} ->
         IF inst.mode = "Impl"
         THEN LET r == Shift(s, c.regs["AC"], op) IN [r.s EXCEPT !.cpu.regs["AC"] = r.val]
         ELSE Rmw(ResolveOperandAddress(s, inst, operands), op)
    [] op = "SAX" ->
         StoreVal(ResolveOperandAddress(s, inst, operands), BitAnd(c.regs["AC"], c.regs["X"]))
    [] op = "STY" ->
         StoreReg(ResolveOperandAddress(s, inst, operands), "Y")
    [] op = "TAX" -> MvWithNegZero(s, "AC", "X")
    [] op = "TAY" -> MvWithNegZero(s, "AC", "Y")
    [] op = "TSX" -> MvWithNegZero(s, "SP", "X")
    [] op = "TXA" -> MvWithNegZero(s, "X", "AC")
    [] op = "TYA" -> MvWithNegZero(s, "Y", "AC")
    [] op = "CLD" -> [s EXCEPT !.cpu.flags = c.flags \ {"D"}]
    [] op = "CLV" -> [s EXCEPT !.cpu.flags = c.flags \ {"V"}]
    [] op = "SED" -> [s EXCEPT !.cpu.flags = c.flags \cup {"D"}]

\* Cpu::execute after the match on the opcode, which gave the system s1
\* unless it panicked
ExecuteEnd(pc_before_exec, s1, inst) ==
  IF s1.panic # "" THEN [s |-> s1, cycles |-> 0]
  ELSE LET s2 == IF AdvancesPc(pc_before_exec, s1.cpu.pc, inst.opcode)
                 THEN IncPc(s1, inst.size) ELSE s1
       IN [s |-> s2, cycles |-> inst.cycles + s2.cpu.extra_cycles]

\* Cpu::execute: the system after the instruction and the cycles it returns
Execute(s, inst, operands) == ExecuteEnd(s.cpu.pc, ExecuteOpcode(s, inst, operands), inst)

\* Cpu::fetch_next_instruction
FetchNextInstruction(s) ==
  LET s0 == [s EXCEPT !.cpu.extra_cycles = 0]
      opbyte == BusRead8(s0, s0.cpu.pc)
      o1 == BusRead8(opbyte.s, s0.cpu.pc + 1)
      o2 == BusRead8(o1.s, s0.cpu.pc + 2)
  IN [s |-> o2.s, inst |-> Disassemble(opbyte.val), operands |-> <<o1.val, o2.val>>]

\* Mos6502::tick executing the instruction f fetched
TickExecute(f) ==
  IF f.inst.opcode = "Unknown opcode"
  THEN [s |-> [f.s EXCEPT !.panic = "Unknown opcode"], cycles |-> 0]
  ELSE
  Execute([f.s EXCEPT !.o.inst = f.inst, !.o.operands = f.operands,
                      !.o.pc_before = f.s.cpu.pc,
                      !.o.flags_before = f.s.cpu.flags],
          f.inst, f.operands)

\* Mos6502::tick counting the cycles e that the execution returned
TickCount(e) ==
  [s |-> [e.s EXCEPT !.machine.total_cycles = e.s.machine.total_cycles + e.cycles,
                     !.machine.total_ticks = e.s.machine.total_ticks + 1,
                     !.o.cycles = e.cycles,
                     !.o.pc_after = e.s.cpu.pc],
   cycles |-> e.cycles]

\* Mos6502::tick
MachineTick(s) == TickCount(TickExecute(FetchNextInstruction(s)))

\* ------------------------------------------------------------------------
\* Nes::tick (nes/src/nes.rs)
\* ------------------------------------------------------------------------
ShutdownValues == {"No", "Yes", "Reset"}

\* what HostPlatform::poll_events may return
PollResults(h) == IF h = "headless" THEN {"No"} ELSE ShutdownValues

\* a variant running two dots per cycle
PpuCyclesForTwo(cpu_cycles) == cpu_cycles * 2

\* the PPU dots Nes::tick runs for an instruction of cpu_cycles cycles
PpuCyclesFor(cpu_cycles) == cpu_cycles * 3

\* whether Nes::tick signals the NMI on entering vblank
NmiOnVblank(p) == p.nmi_at_start_of_vblank

\* the `self.ppu.borrow_mut().tick(ppu_cycles)` of Nes::tick, after the
\* machine tick m
TickPpu(m) == PpuTick(m.s, PpuCyclesFor(m.cycles))

\* the system when Ppu::tick has returned t, the event and the CPU state
\* before any interrupt being noted
TickReturned(t) ==
  [t.s EXCEPT !.o.event = t.event,
              !.o.pre_int = [cpu |-> t.s.cpu, ram |-> t.s.ram]]

\* the arm TickEvent::EnteredVblank: render, poll_events, and the NMI if enabled
OnEnteredVblank(event, s1, polled) ==
  IF event = "EnteredVblank"
  THEN LET a == [s1 EXCEPT !.shutdown = polled, !.o.render = 1, !.o.poll = 1,
                           !.o.polled = polled,
                           !.o.calls = <<"render", "poll_events">>]
       IN IF NmiOnVblank(a.ppu)
          THEN [Nmi(a) EXCEPT !.o.nmi = 1, !.o.calls = Append(a.o.calls, "nmi")]
          ELSE a
  ELSE s1

\* the arm TickEvent::TriggerIrq
OnTriggerIrq(event, s2) ==
  IF event = "TriggerIrq"
  THEN LET taken == IrqAccepted(s2.cpu)
       IN [Irq(s2) EXCEPT
             !.o.irq_calls = 1,
             !.o.calls = Append(s2.o.calls, "irq"),
             !.o.irq_taken = IF taken THEN 1 ELSE 0,
             !.o.irq_unserviced = ~taken,
             !.o.irq_taken_total = s2.o.irq_taken_total + (IF taken THEN 1 ELSE 0),
             !.o.irq_ignored_total = s2.o.irq_ignored_total + (IF taken THEN 0 ELSE 1)]
  ELSE s2

\* a variant that resets the CPU and keeps the stored value
OnShutdownResetKeeps(s3) ==
  IF s3.shutdown = "Reset"
  THEN [Reset(s3) EXCEPT !.o.reset = 1, !.o.calls = Append(s3.o.calls, "reset")]
  ELSE s3

\* the `if self.shutdown == Shutdown::Reset` of Nes::tick
OnShutdownReset(s3) ==
  IF s3.shutdown = "Reset"
  THEN [Reset(s3) EXCEPT !.shutdown = "No", !.o.reset = 1,
                         !.o.calls = Append(s3.o.calls, "reset")]
  ELSE s3

\* Nes::tick from the match on the TickEvent t on
OnTickEvent(t, polled) ==
  OnShutdownReset(OnTriggerIrq(t.event, OnEnteredVblank(t.event, TickReturned(t), polled)))

\* Nes::tick after the machine tick m
AfterMachineTick(m, polled) ==
  IF m.s.panic # "" THEN m.s ELSE OnTickEvent(TickPpu(m), polled)

\* Nes::tick, when poll_events (if it is called) returns polled; a panic in
\* the machine tick ends it there
NesTickResult(s0, polled) ==
  AfterMachineTick(MachineTick([s0 EXCEPT !.o = ObsStartTick(s0.o)]), polled)

\* ------------------------------------------------------------------------
\* Cartridge images.  An image lists the PRG ROM bytes that differ from 0
\* (16 KiB of PRG: two 8 KiB banks, bank 0 visible at $8000-$DFFF and bank 1
\* at $E000-$FFFF with the power-on bank registers) and the byte that fills
\* its CHR ROM.
\* ------------------------------------------------------------------------
Lo(a) == a % 256
Hi(a) == a \div 256

\* the PRG index the power-on MMC3 maps CPU address a to
PrgIndex(a) == IF a >= 57344 THEN KB8 + (a - 57344) ELSE (a - 32768) % KB8

\* the bytes bs placed from CPU address a on
Place(a, bs) == [i \in PrgIndex(a)..(PrgIndex(a) + Len(bs) - 1) |-> bs[i - PrgIndex(a) + 1]]

NmiHandler == 36864
IrqHandler == 37120
Start == 32768

Vectors(reset) ==
  Place(NMI_VECTOR, <<Lo(NmiHandler), Hi(NmiHandler), Lo(reset), Hi(reset),
                      Lo(IrqHandler), Hi(IrqHandler)>>)

Image(name, reset, code, chr_fill, ticks) ==
  [name |-> name, prg |-> code @@ Vectors(reset), prg_banks |-> 2, chr_fill |-> chr_fill,
   chr_upper |-> chr_fill,
   mirroring |-> "Horizontal", mapper_type |-> "Mmc3", chr_ram_mode |-> FALSE, ticks |-> ticks]

Jam == <<2>>
Rti == <<64>>

\* the handlers most images use: NMI and IRQ/BRK both stop the run
StopHandlers == Place(NmiHandler, Jam) @@ Place(IrqHandler, Jam)
\* handlers that return
ReturnHandlers == Place(NmiHandler, Rti) @@ Place(IrqHandler, Rti)

\* a flag set-up (2 bytes), a jump to loc, and one branch instruction at loc
BranchSetups ==
  { <<169, 0>>,      \* LDA #$00: Z set, N clear
    <<169, 128>>,    \* LDA #$80: N set, Z clear
    <<56, 234>>,     \* SEC; NOP
    <<24, 234>> }    \* CLC; NOP

BranchImages ==
  { Image(<<"branch", setup, op, off, loc>>, Start,
          Place(Start, setup \o <<76, Lo(loc), Hi(loc)>>) @@ Place(loc, <<op, off>>)
            @@ StopHandlers,
          0, ShortRun) :
      setup \in BranchSetups,
      op \in {208, 240, 16, 48, 144, 176, 80, 112},
      off \in {0, 2, 4, 127, 128, 251, 254},
      loc \in {32832, 33022, 33021, 33026} }

\* control transfers
FlowImages ==
  { Image("jmp_self", Start, Place(Start, <<76, 0, 128>>) @@ StopHandlers, 0, ShortRun),
    Image("jsr_self", Start, Place(Start, <<32, 0, 128>>) @@ StopHandlers, 0, ShortRun),
    \* JSR $8010; JAM      $8010: LDX #$05; RTS
    Image("jsr_rts", Start,
          Place(Start, <<32, 16, 128, 2>>) @@ Place(32784, <<162, 5, 96>>) @@ StopHandlers,
          0, ShortRun),
    \* JMP ($8020)  with $8020 -> $8030: PHP; PLA; SEC; PHA; PLP; INX; INY; DEY; JAM
    Image("jmp_ind", Start,
          Place(Start, <<108, 32, 128>>) @@ Place(32800, <<48, 128>>)
            @@ Place(32816, <<8, 104, 56, 72, 40, 232, 200, 136, 2>>) @@ StopHandlers,
          0, ShortRun),
    \* LDX #$00; TXS; PHA: the stack pointer wraps;  BRK returns through RTI to $8006
    Image("brk_rti", Start,
          Place(Start, <<162, 1, 154, 169, 7, 0, 234, 2>>)
            @@ Place(NmiHandler, Jam) @@ Place(IrqHandler, <<232, 64>>),
          0, ShortRun),
    \* LDX #$FF; LDA $80F0,X (page crossed); STA $80F0,X; STX $0010; LDA $10; JAM
    Image("index", Start,
          Place(Start, <<162, 255, 189, 240, 128, 157, 16, 0, 142, 16, 0, 165, 16, 2>>)
            @@ StopHandlers,
          0, ShortRun) }

\* OAM DMA: an optional 3-cycle instruction first, OAMADDR set to ptr, two
\* bytes stored in RAM page 2, then the page written to $4014
\*   [LDA $00]; LDA #ptr; STA $2003; LDA #$AB; STA $0200; LDA #$CD; STA $02FF;
\*   LDA #page; STA $4014; JAM

DmaImages ==
  { Image(<<"dma", pre, ptr, page>>, Start,
          Place(Start, pre \o <<169, ptr, 141, 3, 32, 169, 171, 141, 0, 2,
                                169, 205, 141, 255, 2, 169, page, 141, 20, 64, 2>>)
            @@ StopHandlers,
          0, ShortRun) :
      pre \in {<<>>, <<165, 0>>}, ptr \in {0, 16, 255}, page \in {2, 128, 32} }

\* MMC3 scanline IRQ: [CLI]; LDA #$08; STA $2001 (background on); STA $E001
\* (IRQ enabled); LDX #n; DEX; BNE -3; CLI; NOP; NOP; NOP; JAM
\* the IRQ handler is INX; RTI

IrqImages ==
  { Image(<<"irq", pre, n>>, Start,
          Place(Start, pre \o <<169, 8, 141, 1, 32, 141, 1, 224, 162, n, 202, 208, 253,
                                88, 234, 234, 234, 2>>)
            @@ Place(NmiHandler, Jam) @@ Place(IrqHandler, <<232, 64>>),
          0, ShortRun) :
      pre \in {<<>>, <<88>>}, n \in {2, 18} }

\* indexed operands: LDX #idx; LDY #idx; LDA #lo; STA $10; LDA #hi; STA $11;
\* the instruction op on base (absolute, or through the pointer at $10); NOP; JAM
IndexedImages ==
  { Image(<<"indexed", op, base, idx>>, Start,
          Place(Start, <<162, idx, 160, idx, 169, Lo(base), 133, 16, 169, Hi(base), 133, 17>>
                         \o (IF Disassemble(op).mode = "IndY" THEN <<op, 16>>
                             ELSE <<op, Lo(base), Hi(base)>>)
                         \o <<234, 2>>)
            @@ StopHandlers,
          0, ShortRun) :
      op \in {189, 157, 254, 223, 255, 31, 63, 95, 127, 28, 30,     \* absolute,X
              185, 153, 190, 219, 251,                              \* absolute,Y
              177, 145, 211, 243, 19, 115, 179},                    \* (indirect),Y
      base \in {640, 752},
      idx \in {0, 32} }

\* every opcode byte as the first instruction, with operand bytes $10 $00
OpcodeImages ==
  { Image(<<"opcode", op>>, Start, Place(Start, <<op, 16, 0, 2>>) @@ StopHandlers,
          0, ShortRun) : op \in Byte }

\* NROM cartridges: a store to PRG ROM, a load from $5000, a store to PRG
\* RAM, and a store to pattern-table memory through PPUADDR/PPUDATA, each
\* with CHR ROM and with CHR RAM
NromImages ==
  { [Image(<<"nrom", code, chr_ram>>, Start, Place(Start, code \o <<234, 2>>) @@ StopHandlers,
           0, ShortRun)
       EXCEPT !.mapper_type = "Nrom", !.chr_ram_mode = chr_ram] :
      code \in { <<169, 7, 141, 0, 128>>, <<173, 0, 80, 170>>, <<169, 7, 141, 0, 96, 174, 0, 96>>,
                 <<169, 16, 141, 6, 32, 169, 0, 141, 6, 32, 169, 7, 141, 7, 32>> },
      chr_ram \in BOOLEAN }

\* a 32 KiB PRG ROM holding the 16 KiB image p twice
Wide(p) == p @@ [i \in {j + KB16 : j \in DOMAIN p} |-> p[i - KB16]]

\* UxROM with one or two 16 KiB banks: LDA #v; STA $8000; LDA $8000; TAX; NOP
UxromImages ==
  { [Image(<<"uxrom", v, banks>>, Start,
           Place(Start, <<169, v, 141, 0, 128, 173, 0, 128, 170, 234, 2>>) @@ StopHandlers,
           0, ShortRun)
       EXCEPT !.mapper_type = "Uxrom", !.prg_banks = 2 * banks,
              !.prg = IF banks = 2 THEN Wide(@) ELSE @] :
      v \in {0, 1, 2, 3, 129}, banks \in {1, 2} }

\* CNROM with 16 or 32 KiB of PRG, started at $8000 or at $C000:
\* LDA $FFFA; LDX $C000; LDY $8000; NOP
CnromImages ==
  { [Image(<<"cnrom", reset, banks>>, reset,
           Place(Start, <<173, 250, 255, 174, 0, 192, 172, 0, 128, 234, 2>>) @@ StopHandlers,
           0, ShortRun)
       EXCEPT !.mapper_type = "Cnrom", !.prg_banks = 2 * banks,
              !.prg = IF banks = 2 THEN Wide(@) ELSE @] :
      reset \in {Start, 49152}, banks \in {1, 2} }

\* $FF := $40, $00 := $02, $0100 := $03, $0240 := $AA, $0340 := $BB,
\* $10 := $CC, $0110 := $DD; LDX #idx; LDY #idx; LDA #$EE; then one
\* instruction with a zero-page indexed or indirect operand:
\* LDA/STA zp,X, LDX/STX zp,Y, LDA (zp,X), LDA (zp),Y
ZeropageImages ==
  { Image(<<"zeropage", op, operand, idx>>, Start,
          Place(Start, <<169, 64, 133, 255, 169, 2, 133, 0, 169, 3, 141, 0, 1,
                         169, 170, 141, 64, 2, 169, 187, 141, 64, 3,
                         169, 204, 133, 16, 169, 221, 141, 16, 1,
                         162, idx, 160, idx, 169, 238, op, operand, 234, 2>>)
            @@ StopHandlers,
          0, ShortRun) :
      op \in {181, 149, 182, 150, 161, 177}, operand \in {223, 240, 255},
      idx \in {0, 32, 255} }

\* bytes at the ends and at the sign change, with their complements
AdcBytes == {0, 1, 80, 127, 128, 175, 254, 255}

\* LDA #a; SEC or CLC; ADC #m or SBC #m
AdcImages ==
  { Image(<<"adc", a, carry, op, m>>, Start,
          Place(Start, <<169, a, carry, op, m, 2>>) @@ StopHandlers, 0, ShortRun) :
      a \in AdcBytes, carry \in {24, 56}, op \in {105, 233}, m \in AdcBytes }

\* LDA #v; PHA; PLP; PHP; BRK; (skipped byte); PHP with the IRQ/BRK handler an
\* RTI: status bytes pulled with bits 4 and 5 set and clear, pushed, and
\* pushed by BRK and pulled back by RTI
StatusImages ==
  { Image(<<"status", v>>, Start,
          Place(Start, <<169, v, 72, 40, 8, 0, 234, 8, 2>>)
            @@ Place(NmiHandler, Jam) @@ Place(IrqHandler, Rti),
          0, ShortRun) :
      v \in {0, 17, 48, 195, 255} }

\* LDX #sp; TXS; LDY #x; TYA; PHA; LDA #$00; PLA: a push and a pop at every
\* kind of stack pointer, the ends $00 and $FF among them
StackImages ==
  { Image(<<"stack", sp, x>>, Start,
          Place(Start, <<162, sp, 154, 160, x, 152, 72, 169, 0, 104, 2>>) @@ StopHandlers,
          0, ShortRun) :
      sp \in {0, 1, 128, 254, 255}, x \in {90, 255} }

\* LDA #c; STA $2000; LDA #d; STA $2006; STA $2005; STA $2005; STA $2006;
\* STA $2007; LDA $2007: the scroll and address registers written in turn,
\* then two accesses of the data register
ScrollImages ==
  { Image(<<"scroll", c, d>>, Start,
          Place(Start, <<169, c, 141, 0, 32, 169, d, 141, 6, 32, 141, 5, 32, 141, 5, 32,
                         141, 6, 32, 141, 7, 32, 173, 7, 32, 2>>) @@ StopHandlers,
          0, ShortRun) :
      c \in {0, 4, 3}, d \in {0, 127, 255} }

Images ==
  BranchImages \cup FlowImages \cup DmaImages \cup IrqImages \cup IndexedImages
    \cup OpcodeImages \cup NromImages \cup UxromImages \cup CnromImages \cup StackImages
    \cup StatusImages \cup AdcImages \cup ZeropageImages \cup ScrollImages

\* Images that run for whole frames.  Each ends in the 5-cycle loop
\* `JMP ($80F0)` whose pointer holds the address of the JMP itself.
LoopAt(a) == Place(a, <<108, 240, 128>>) @@ Place(33008, <<Lo(a), Hi(a)>>)

\* LDX #nx; (LDY #ny; (DEY; BNE -3); DEX; BNE -8): 2 + nx * (5 * ny + 6) - 1 cycles
Delay(nx, ny) == <<162, nx, 160, ny, 136, 208, 253, 202, 208, 248>>

FrameImages ==
  { \* nothing enabled
    Image("idle", Start, LoopAt(Start) @@ ReturnHandlers, 0, MaxTicks),
    \* LDA #$1E; STA $2001: background and sprites shown; CHR all ones
    Image("rend", Start,
          Place(Start, <<169, 30, 141, 1, 32>>) @@ LoopAt(Start + 5) @@ ReturnHandlers,
          255, MaxTicks),
    \* LDA #$80; STA $2000: NMI at vblank, I set
    Image("nmi", Start,
          Place(Start, <<169, 128, 141, 0, 32>>) @@ LoopAt(Start + 5) @@ ReturnHandlers,
          0, MaxTicks),
    \* CLI; LDA #$80; STA $2000; LDA #$1E; STA $2001: NMI at vblank, I clear
    Image("nmi_cli", Start,
          Place(Start, <<88, 169, 128, 141, 0, 32, 169, 30, 141, 1, 32>>)
            @@ LoopAt(Start + 11) @@ ReturnHandlers,
          255, MaxTicks),
    \* loop: LDA $2002; JMP loop: the status register is read all the time
    Image("poll", Start,
          Place(Start, <<169, 30, 141, 1, 32, 173, 2, 32, 76, 5, 128>>) @@ ReturnHandlers,
          255, MaxTicks),
    \* LDA #$80; STA $2000; delay; LDA #$02; STA $4014: the DMA runs over 241:1
    Image("dma_vbl", Start,
          Place(Start, <<169, 128, 141, 0, 32>> \o Delay(21, 255) \o <<169, 2, 141, 20, 64>>)
            @@ LoopAt(Start + 20) @@ ReturnHandlers,
          0, MaxTicks),
    \* LDA #$80; STA $2000; LDA #$08; STA $2001; STA $E001; LDX #18; DEX; BNE -3;
    \* CLI: scanline IRQs with I set, then with I clear, then the NMI
    Image("irq_nmi", Start,
          Place(Start, <<169, 128, 141, 0, 32, 169, 8, 141, 1, 32, 141, 1, 224,
                         162, 18, 202, 208, 253, 88>>)
            @@ LoopAt(Start + 19)
            @@ Place(NmiHandler, Rti) @@ Place(IrqHandler, <<232, 64>>),
          0, MaxTicks),
    \* LDA #$1E; STA $2001; LDA #$05; STA $C000: rendering on, IRQ latch 5
    Image("clock", Start,
          Place(Start, <<169, 30, 141, 1, 32, 169, 5, 141, 0, 192>>)
            @@ LoopAt(Start + 10) @@ ReturnHandlers,
          255, MaxTicks),
    \* LDA #$05; STA $C000: IRQ latch 5, rendering off
    Image("clock_off", Start,
          Place(Start, <<169, 5, 141, 0, 192>>) @@ LoopAt(Start + 5) @@ ReturnHandlers,
          0, MaxTicks) }
    \cup IrqImages

\* ------------------------------------------------------------------------
\* Cartridge loading (nes/src/cartridge.rs).  A file is its length, its
\* first four bytes and the header bytes 4 to 7.
\* ------------------------------------------------------------------------
MAGIC == <<78, 69, 83, 26>>
HEADER_SIZE == 16
PRG_ROM_BLOCK_SIZE == KB16
CHR_ROM_BLOCK_SIZE == KB8

\* MapperType::try_from
MapperTypeOf(id) ==
  CASE id = 0 -> "Nrom" [] id = 1 -> "Mmc1" [] id = 2 -> "Uxrom" [] id = 3 -> "Cnrom"
    [] id = 4 -> "Mmc3" [] OTHER -> "NotYetImplemented"

\* Cartridge::load: err is "" for Ok(Cartridge) and the error's tag otherwise;
\* prg and chr are the half-open ranges start..end of the Cartridge
CartridgeLoad(bin) ==
  LET failed(tag) == [err |-> tag]
      id == BitOr(BitAnd(bin.flags7, 240), bin.flags6 \div 16)
      prg_end == HEADER_SIZE + bin.prg_rom_blocks * PRG_ROM_BLOCK_SIZE
      uses_chr_ram == bin.chr_rom_blocks = 0
  IN
  IF bin.len < HEADER_SIZE + PRG_ROM_BLOCK_SIZE \/ bin.magic # MAGIC
  THEN failed("strange size")
  ELSE IF MapperTypeOf(id) = "NotYetImplemented" THEN failed("Mapper")
  ELSE IF BitAnd(bin.flags6, 4) # 0 \/ BitAnd(bin.flags6, 8) # 0 THEN failed("Trainer")
  ELSE [err |-> "",
        format |-> IF BitAnd(bin.flags7, 12) = 8 THEN "Nes2" ELSE "Ines",
        mapper_type |-> MapperTypeOf(id),
        mirroring |-> IF BitAnd(bin.flags6, 1) = 1 THEN "Vertical" ELSE "Horizontal",
        prg |-> [start |-> HEADER_SIZE, end |-> prg_end],
        chr |-> IF uses_chr_ram THEN [start |-> 0, end |-> CHR_ROM_BLOCK_SIZE]
                ELSE [start |-> prg_end,
                      end |-> prg_end + bin.chr_rom_blocks * CHR_ROM_BLOCK_SIZE],
        chr_ram_mode |-> uses_chr_ram]

\* the header a cartridge image is loaded from
RomOf(c) ==
  [len |-> HEADER_SIZE + c.prg_banks * KB8 + (IF c.chr_ram_mode THEN 0 ELSE CHR_ROM_BLOCK_SIZE),
   magic |-> MAGIC, prg_rom_blocks |-> (c.prg_banks * KB8) \div PRG_ROM_BLOCK_SIZE,
   chr_rom_blocks |-> IF c.chr_ram_mode THEN 0 ELSE 1,
   flags6 |-> (CASE c.mapper_type = "Nrom" -> 0 [] c.mapper_type = "Mmc1" -> 16
                 [] c.mapper_type = "Uxrom" -> 32 [] c.mapper_type = "Cnrom" -> 48
                 [] OTHER -> 64)
                + (IF c.mirroring = "Vertical" THEN 1 ELSE 0),
   flags7 |-> 0]

\* ------------------------------------------------------------------------
\* nes-cloud: the server that starts one emulator instance per client
\* (nes-cloud/src/server/server.rs, runners/process.rs).  A ClientId is a
\* socket address <<ip, port>>.

\* AppSettings::max_concurrent
MaxConcurrent == 2

\* three clients of one IP address and two of another
ClientIds == {<<1, 1>>, <<1, 2>>, <<1, 3>>, <<2, 1>>, <<2, 2>>}

Event(kind, client_id, msg) == [kind |-> kind, id |-> client_id, msg |-> msg]

\* Server::new, the channel serve opens, and no instance started yet
ServerNew(block_dup) ==
  [connected |-> <<>>, block_dup |-> block_dup, max_concurrent |-> MaxConcurrent,
   rx |-> <<>>, instances |-> {}, accepted |-> {}, written |-> {}]

SameIp(connected, client_id) ==
  \E i \in 1..Len(connected) : connected[i][1] = client_id[1]

BlockClient(srv, client_id) ==
  IF Len(srv.connected) >= srv.max_concurrent THEN "TooManyPlayers"
  ELSE IF srv.block_dup /\ SameIp(srv.connected, client_id) THEN "AlreadyConnected"
  ELSE "None"

\* ProcessInstanceRunner::run: the child is spawned, and a thread waits for it
Run(srv, client_id) ==
  [srv EXCEPT !.instances = @ \cup {client_id}]

\* started is FALSE when set_read_timeout or the spawn of the child fails
ClientConnected(srv, client_id, started) ==
  IF BlockClient(srv, client_id) # "None"
  THEN [srv EXCEPT !.rx = Append(@, Event("Blocked", client_id, BlockClient(srv, client_id)))]
  ELSE IF ~started THEN srv
  ELSE [Run(srv, client_id) EXCEPT !.connected = Append(@, client_id)]

ClientDisconnected(srv, client_id) ==
  [srv EXCEPT !.connected = SelectSeq(@, LAMBDA c : c[1] # client_id[1])]

\* the emulator specifications have no server
NoServer == ServerNew(FALSE)

\* the system record the operators work on
Sys ==
  [cpu |-> cpu, machine |-> machine, ram |-> ram, ppu |-> ppu, mapper |-> mapper,
   joypad |-> joypad, shutdown |-> shutdown, irq |-> FALSE, panic |-> "", o |-> obs]

\* Nes::insert with the given images
InitWith(images, hosts) ==
  /\ server = NoServer
  /\ cart \in images
  /\ rom = RomOf(cart)
  /\ host \in hosts
  /\ machine = [total_cycles |-> 0, total_ticks |-> 0]
  /\ ram = [i \in {} |-> 0]
  /\ ppu = PpuNew
  /\ mapper = MapperFor
  /\ joypad = JoypadNew
  /\ shutdown = "No"
  /\ halted = ""
  /\ obs = ObsNew
  /\ cpu = Reset([cpu |-> CpuNew, machine |-> machine, ram |-> ram, ppu |-> ppu,
                  mapper |-> mapper, joypad |-> joypad, shutdown |-> shutdown,
                  irq |-> FALSE, panic |-> "", o |-> obs]).cpu

Init == InitWith(Images, {"headless"})

\* the variables after a Nes::tick that led to the system r: a panic ends
\* the run where it stood
TickOutcome(r) ==
  IF r.panic # ""
  THEN /\ halted' = r.panic
       /\ UNCHANGED <<cpu, machine, ram, ppu, mapper, joypad, shutdown, obs>>
  ELSE /\ cpu' = r.cpu
       /\ machine' = r.machine
       /\ ram' = r.ram
       /\ ppu' = r.ppu
       /\ mapper' = r.mapper
       /\ joypad' = r.joypad
       /\ shutdown' = r.shutdown
       /\ obs' = r.o
       /\ halted' = halted

\* one call of Nes::tick from the run loop `while nes.powered_on() { nes.tick() }`
NesTick ==
  /\ halted = ""
  /\ shutdown # "Yes"
  /\ machine.total_ticks < cart.ticks
  /\ \E polled \in PollResults(host) : TickOutcome(NesTickResult(Sys, polled))
  /\ UNCHANGED <<rom, cart, host, server>>

Next == NesTick

Spec == Init /\ [][Next]_vars

\* the same machine with the images that run for whole frames
\* images run under the SDL host, whose poll_events returns Yes on Escape
\* and Reset on R: nothing enabled, and the NMI at vblank enabled
SdlImages ==
  { Image("idle_sdl", Start, LoopAt(Start) @@ ReturnHandlers, 0, MaxTicks),
    Image("nmi_sdl", Start,
          Place(Start, <<169, 128, 141, 0, 32, 162, 5>>) @@ LoopAt(Start + 7) @@ ReturnHandlers,
          0, MaxTicks) }

InitFrame == InitWith(FrameImages, {"headless"}) \/ InitWith(SdlImages, {"sdl"})

SpecFrame == InitFrame /\ [][Next]_vars

\* ------------------------------------------------------------------------
\* Loading a file: the state before Nes::insert, with no cartridge yet
\* ------------------------------------------------------------------------
\* the files tried: lengths around a header, one and two PRG blocks and a CHR block
Roms ==
  [len : { 0, HEADER_SIZE, HEADER_SIZE + PRG_ROM_BLOCK_SIZE - 1,
           HEADER_SIZE + PRG_ROM_BLOCK_SIZE,
           HEADER_SIZE + PRG_ROM_BLOCK_SIZE + CHR_ROM_BLOCK_SIZE,
           HEADER_SIZE + 2 * PRG_ROM_BLOCK_SIZE,
           HEADER_SIZE + 2 * PRG_ROM_BLOCK_SIZE + CHR_ROM_BLOCK_SIZE },
   magic : {MAGIC, <<78, 69, 83, 0>>}, prg_rom_blocks : 0..2,
   chr_rom_blocks : 0..1, flags6 : {0, 1, 4, 8, 16, 64, 80}, flags7 : {0, 4, 8, 16}]

InitLoad ==
  /\ server = NoServer
  /\ rom \in Roms
  /\ cart = [err |-> "not loaded"]
  /\ host = "headless"
  /\ machine = [total_cycles |-> 0, total_ticks |-> 0]
  /\ ram = [i \in {} |-> 0]
  /\ ppu = PpuNew
  /\ mapper = [i \in {} |-> 0]
  /\ joypad = JoypadNew
  /\ shutdown = "No"
  /\ halted = ""
  /\ obs = ObsNew
  /\ cpu = CpuNew

\* one call of Cartridge::load
Load ==
  /\ cart = [err |-> "not loaded"]
  /\ cart' = CartridgeLoad(rom)
  /\ UNCHANGED <<cpu, machine, ram, ppu, mapper, rom, joypad, host, shutdown, halted, obs, server>>

SpecLoad == InitLoad /\ [][Load]_vars

\* ------------------------------------------------------------------------
\* The mapper driven call by call: the bus traffic and the PPU clocks of an
\* arbitrary program, seen from the mapper of an MMC1 or MMC3 cartridge
\* ------------------------------------------------------------------------
\* mapper calls explored from Nes::insert on
MaxMapperCalls == 10

MapperCarts ==
  { [Image("mapper", Start, StopHandlers, 0, 0) EXCEPT !.mapper_type = t, !.mirroring = mir] :
      t \in {"Mmc1", "Mmc3"}, mir \in {"Horizontal", "Vertical"} }

\* the bytes written: bit 0 clear and set, and for MMC1 bit 7 set
MapperVals == IF cart.mapper_type = "Mmc1" THEN {0, 1, 128} ELSE {0, 1}

\* the addresses written: one in each register range of MMC1; the mirroring
\* register and the even and odd IRQ registers of MMC3
MapperAddresses ==
  IF cart.mapper_type = "Mmc1" THEN {32768, 40960, 49152, 57344}
  ELSE {40960, 49152, 49153, 57344, 57345}

\* the bits 0 of the writes to $8000-$FFFF with bit 7 clear made since the
\* last write with bit 7 set or the last fifth write
BitsWritten(bits, val, address) ==
  IF address < 32768 \/ cart.mapper_type # "Mmc1" THEN bits
  ELSE IF val >= 128 \/ Len(bits) = 4 THEN <<>>
  ELSE Append(bits, val % 2)

InitMapper ==
  /\ server = NoServer
  /\ cart \in MapperCarts
  /\ rom = RomOf(cart)
  /\ host = "headless"
  /\ machine = [total_cycles |-> 0, total_ticks |-> 0]
  /\ ram = [i \in {} |-> 0]
  /\ ppu = PpuNew
  /\ mapper = MapperFor
  /\ joypad = JoypadNew
  /\ shutdown = "No"
  /\ halted = ""
  /\ obs = [call |-> "none", val |-> 0, address |-> 0, ret |-> FALSE, n |-> 0, bits |-> <<>>]
  /\ cpu = Reset([cpu |-> CpuNew, machine |-> machine, ram |-> ram, ppu |-> ppu,
                  mapper |-> mapper, joypad |-> joypad, shutdown |-> shutdown,
                  irq |-> FALSE, panic |-> "", o |-> obs]).cpu

\* one Bus::write8 of the mapper; a panic ends the run
WriteStep ==
  /\ halted = ""
  /\ obs.n < MaxMapperCalls
  /\ \E val \in MapperVals, address \in MapperAddresses :
       LET r == MapperWrite8(Sys, val, address) IN
       /\ halted' = r.panic
       /\ mapper' = IF r.panic = "" THEN r.mapper ELSE mapper
       /\ obs' = [call |-> "write8", val |-> val, address |-> address, ret |-> FALSE,
                  n |-> obs.n + 1, bits |-> BitsWritten(obs.bits, val, address)]
  /\ UNCHANGED <<cpu, machine, ram, ppu, rom, cart, joypad, host, shutdown, server>>

\* one Mapper::irq, the call Ppu::tick makes at dot 260 of a rendered line
ClockStep ==
  /\ halted = ""
  /\ obs.n < MaxMapperCalls
  /\ mapper' = MapperClock(mapper).m
  /\ obs' = [call |-> "irq", val |-> 0, address |-> 0, ret |-> MapperClock(mapper).ret,
             n |-> obs.n + 1, bits |-> obs.bits]
  /\ UNCHANGED <<cpu, machine, ram, ppu, rom, cart, joypad, host, shutdown, halted, server>>

NextMapper == WriteStep \/ ClockStep

SpecMapper == InitMapper /\ [][NextMapper]_vars

\* ------------------------------------------------------------------------
\* MMC1 with four 16 KiB PRG banks: the serial writes to the control and the
\* PRG-bank register, and CPU reads of the two PRG windows
\* ------------------------------------------------------------------------
MaxMmc1Calls == 11

\* the first and the last byte of the 16 KiB bank b hold b + 1
Mmc1Carts ==
  { [Image("mmc1", Start, StopHandlers, 0, 0) EXCEPT
       !.mapper_type = "Mmc1", !.prg_banks = 8,
       !.prg = [i \in {b * KB16 + o : b \in 0..3, o \in {0, KB16 - 1}} |-> (i \div KB16) + 1]] }

InitMmc1 ==
  /\ server = NoServer
  /\ cart \in Mmc1Carts
  /\ rom = RomOf(cart)
  /\ host = "headless"
  /\ machine = [total_cycles |-> 0, total_ticks |-> 0]
  /\ ram = [i \in {} |-> 0]
  /\ ppu = PpuNew
  /\ mapper = MapperFor
  /\ joypad = JoypadNew
  /\ shutdown = "No"
  /\ halted = ""
  /\ obs = [call |-> "none", val |-> 0, address |-> 0, ret |-> 0, n |-> 0]
  /\ cpu = Reset([cpu |-> CpuNew, machine |-> machine, ram |-> ram, ppu |-> ppu,
                  mapper |-> mapper, joypad |-> joypad, shutdown |-> shutdown,
                  irq |-> FALSE, panic |-> "", o |-> obs]).cpu

\* one Bus::write8 of the mapper, to the control or to the PRG-bank register
Mmc1WriteStep ==
  /\ halted = ""
  /\ obs.n < MaxMmc1Calls
  /\ \E val \in {0, 1}, address \in {32768, 57344} :
       /\ halted' = MapperWrite8(Sys, val, address).panic
       /\ mapper' = MapperWrite8(Sys, val, address).mapper
       /\ obs' = [call |-> "write8", val |-> val, address |-> address, ret |-> 0,
                  n |-> obs.n + 1]
  /\ UNCHANGED <<cpu, machine, ram, ppu, rom, cart, joypad, host, shutdown, server>>

\* one Bus::read8 of the mapper, at an end of a PRG window; a panic ends the run
Mmc1ReadStep ==
  /\ halted = ""
  /\ obs.n < MaxMmc1Calls
  /\ \E address \in {32768, 49151, 49152, 65535} :
       /\ halted' = MapperRead8(Sys, address).s.panic
       /\ obs' = [call |-> "read8", val |-> 0, address |-> address,
                  ret |-> MapperRead8(Sys, address).val, n |-> obs.n + 1]
  /\ UNCHANGED <<cpu, machine, ram, ppu, mapper, rom, cart, joypad, host, shutdown, server>>

NextMmc1 == Mmc1WriteStep \/ Mmc1ReadStep

SpecMmc1 == InitMmc1 /\ [][NextMmc1]_vars

\* ------------------------------------------------------------------------
\* The PPU registers on their own: CPU reads and writes of $2000-$3FFF with
\* no PPU dot in between
\* ------------------------------------------------------------------------
MaxPpuCalls == 4

\* NROM with CHR RAM, so that $2007 reaches the pattern tables too
PpuCarts ==
  { [Image("ppu", Start, StopHandlers, 0, 0) EXCEPT !.mapper_type = "Nrom", !.chr_ram_mode = TRUE] }

\* bit 2 set and clear; high address bytes of the pattern tables, the palette
\* and (masked to 6 bits) the nametables
PpuVals == {4, 63, 161}

\* $2000, $2006, $2007 and the mirror $3FFE of $2006
PpuWriteAddresses == {8192, 8198, 8199, 16382}

\* $2002, its mirror $3FFA, and $2007
PpuReadAddresses == {8194, 16378, 8199}

\* in_vblank, sprite_0_hit and sprite_overflow as the dots can have left them
PpuFlags ==
  { <<FALSE, FALSE, FALSE>>, <<TRUE, FALSE, FALSE>>, <<FALSE, TRUE, FALSE>>,
    <<FALSE, FALSE, TRUE>>, <<TRUE, TRUE, TRUE>> }

InitPpu ==
  /\ server = NoServer
  /\ cart \in PpuCarts
  /\ rom = RomOf(cart)
  /\ host = "headless"
  /\ machine = [total_cycles |-> 0, total_ticks |-> 0]
  /\ ram = [i \in {} |-> 0]
  /\ \E f \in PpuFlags :
       ppu = [PpuNew EXCEPT !.in_vblank = f[1], !.sprite_0_hit = f[2],
                            !.sprite_overflow = f[3]]
  /\ mapper = MapperFor
  /\ joypad = JoypadNew
  /\ shutdown = "No"
  /\ halted = ""
  /\ obs = [call |-> "none", val |-> 0, address |-> 0, ret |-> 0, n |-> 0,
            w |-> TRUE, last |-> -1, ctrl |-> -1]
  /\ cpu = Reset([cpu |-> CpuNew, machine |-> machine, ram |-> ram, ppu |-> ppu,
                  mapper |-> mapper, joypad |-> joypad, shutdown |-> shutdown,
                  irq |-> FALSE, panic |-> "", o |-> obs]).cpu

\* one NesBus::write8 of a PPU register.  obs keeps the call, the write
\* toggle before it, the byte last written to a PPU register and the byte
\* last written to $2000.
RegWrite ==
  /\ halted = ""
  /\ obs.n < MaxPpuCalls
  /\ \E val \in PpuVals, address \in PpuWriteAddresses :
       LET r == BusWrite8(Sys, val, address) IN
       /\ halted' = r.panic
       /\ ppu' = r.ppu
       /\ mapper' = r.mapper
       /\ obs' = [call |-> "write8", val |-> val, address |-> address, ret |-> 0,
                  n |-> obs.n + 1, w |-> ppu.w_latch, last |-> val,
                  ctrl |-> IF MapAddress(address) = 0 THEN val ELSE obs.ctrl]
  /\ UNCHANGED <<cpu, machine, ram, rom, cart, joypad, host, shutdown, server>>

\* one NesBus::read8 of a PPU register
RegRead ==
  /\ halted = ""
  /\ obs.n < MaxPpuCalls
  /\ \E address \in PpuReadAddresses :
       LET r == BusRead8(Sys, address) IN
       /\ halted' = r.s.panic
       /\ ppu' = r.s.ppu
       /\ mapper' = r.s.mapper
       /\ obs' = [obs EXCEPT !.call = "read8", !.val = 0, !.address = address,
                             !.ret = r.val, !.n = obs.n + 1, !.w = ppu.w_latch]
  /\ UNCHANGED <<cpu, machine, ram, rom, cart, joypad, host, shutdown, server>>

NextPpu == RegWrite \/ RegRead

SpecPpu == InitPpu /\ [][NextPpu]_vars

\* ------------------------------------------------------------------------
\* The palette through the PPU registers: each step sets the address with two
\* writes to $2006 and then reads or writes $2007
\* ------------------------------------------------------------------------
MaxPaletteCalls == 3

\* $3F00, $3F01, $3F04, $3F10, $3F14, $3F1C, $3F1F, and the mirrors $3F21,
\* $3F30, $3FEC, $3FFF
PaletteAddresses == {16128, 16129, 16132, 16144, 16148, 16156, 16159, 16161, 16176, 16364, 16383}

\* the two writes to $2006 that leave v = a
SetAddr(s, a) == BusWrite8(BusWrite8(s, a \div 256, 8198), a % 256, 8198)

PaletteWriteStep ==
  /\ obs.n < MaxPaletteCalls
  /\ \E val \in {0, 63}, a \in PaletteAddresses :
       /\ ppu' = BusWrite8(SetAddr(Sys, a), val, 8199).ppu
       /\ obs' = [obs EXCEPT !.call = "write8", !.val = val, !.address = a, !.ret = 0,
                             !.n = obs.n + 1]
  /\ UNCHANGED <<cpu, machine, ram, mapper, rom, cart, joypad, host, shutdown, halted, server>>

PaletteReadStep ==
  /\ obs.n < MaxPaletteCalls
  /\ \E a \in PaletteAddresses :
       LET r == BusRead8(SetAddr(Sys, a), 8199) IN
       /\ ppu' = r.s.ppu
       /\ obs' = [obs EXCEPT !.call = "read8", !.val = 0, !.address = a, !.ret = r.val,
                             !.n = obs.n + 1]
  /\ UNCHANGED <<cpu, machine, ram, mapper, rom, cart, joypad, host, shutdown, halted, server>>

NextPalette == PaletteWriteStep \/ PaletteReadStep

SpecPalette == InitPpu /\ [][NextPalette]_vars

\* ------------------------------------------------------------------------
\* The visible dots of one scanline on their own
\* ------------------------------------------------------------------------
MaxPixels == 3

\* NROM with CHR ROM: one pattern table opaque and one transparent, or both
\* opaque
PixelCarts ==
  { [Image("pixel", Start, StopHandlers, lower, 0)
       EXCEPT !.mapper_type = "Nrom", !.chr_upper = upper] :
      lower \in {0, 255}, upper \in {255} }

\* the dots rendered: in and right of the left 8 pixels, under a sprite at
\* the right edge, and the last
PixelXs == {0, 7, 8, 250, 254, 255}

\* the writes val to $2000, mask to $2001, 0 to $2003 and y0, 0, attr, x0 to
\* $2004, then the sprite load at dot 320 of line 0: OAM entry 0 is at line
\* y0 + 1, has attributes attr and is at x0, the others are at line 1 and x 0
PixelSetup(val, mask, y0, attr, x0) ==
  LoadSpritesForNextScanline(
    CpuWriteRegister(CpuWriteRegister(CpuWriteRegister(CpuWriteRegister(
      CpuWriteRegister(CpuWriteRegister(CpuWriteRegister(
        [ppu |-> PpuNew], val, 0), mask, 1), 0, 3), y0, 4), 0, 4), attr, 4), x0, 4).ppu)

InitPixel ==
  /\ server = NoServer
  /\ cart \in PixelCarts
  /\ rom = RomOf(cart)
  /\ host = "headless"
  /\ machine = [total_cycles |-> 0, total_ticks |-> 0]
  /\ ram = [i \in {} |-> 0]
  /\ \E val \in {0, 8, 16, 24}, mask \in {8, 16, 24, 26, 28, 30}, attr \in {0, 1, 33},
        x0 \in {0, 4, 250}, y0 \in {0, 240} :
       ppu = PixelSetup(val, mask, y0, attr, x0)
  /\ mapper = MapperFor
  /\ joypad = JoypadNew
  /\ shutdown = "No"
  /\ halted = ""
  /\ obs = [call |-> "none", x |-> 0, n |-> 0, hit |-> FALSE, pixel |-> -1]
  /\ cpu = Reset([cpu |-> CpuNew, machine |-> machine, ram |-> ram, ppu |-> ppu,
                  mapper |-> mapper, joypad |-> joypad, shutdown |-> shutdown,
                  irq |-> FALSE, panic |-> "", o |-> obs]).cpu

\* the (Phase::Render, 0..=255, _) arm of Ppu::tick at dot x of line 1; obs
\* keeps x, the sprite-0-hit flag before the dot and the pixel the dot wrote
PixelStep ==
  /\ obs.n < MaxPixels
  /\ \E x \in PixelXs :
       /\ ppu' = RenderVisiblePixel([ppu EXCEPT !.state.cycle = x, !.state.scanline = 1])
       /\ obs' = [call |-> "pixel", x |-> x, n |-> obs.n + 1, hit |-> ppu.sprite_0_hit,
                  pixel |-> FramePixel([ppu EXCEPT !.state.cycle = x, !.state.scanline = 1],
                                       mapper)]
  /\ UNCHANGED <<cpu, machine, ram, mapper, rom, cart, joypad, host, shutdown, halted, server>>

SpecPixel == InitPixel /\ [][PixelStep]_vars

\* ------------------------------------------------------------------------
\* The joypad on its own: CPU writes and reads of $4016 and the button events
\* of the host
\* ------------------------------------------------------------------------
MaxJoypadCalls == 11

\* JoypadButton::A, START and RIGHT
Buttons == {1, 8, 128}

InitJoypad ==
  /\ server = NoServer
  /\ cart \in PpuCarts
  /\ rom = RomOf(cart)
  /\ host = "sdl"
  /\ machine = [total_cycles |-> 0, total_ticks |-> 0]
  /\ ram = [i \in {} |-> 0]
  /\ ppu = PpuNew
  /\ mapper = MapperFor
  /\ joypad = JoypadNew
  /\ shutdown = "No"
  /\ halted = ""
  /\ obs = [call |-> "none", ret |-> 0, n |-> 0, latched |-> -1, reads |-> 0]
  /\ cpu = Reset([cpu |-> CpuNew, machine |-> machine, ram |-> ram, ppu |-> ppu,
                  mapper |-> mapper, joypad |-> joypad, shutdown |-> shutdown,
                  irq |-> FALSE, panic |-> "", o |-> obs]).cpu

\* one NesBus::write8 of $4016.  obs keeps the buttons as they were at the
\* last write with bit 0 set and the number of reads made since.
JoypadStrobeStep ==
  /\ obs.n < MaxJoypadCalls
  /\ \E val \in {0, 1, 2, 3} :
       /\ joypad' = BusWrite8(Sys, val, 16406).joypad
       /\ obs' = [call |-> "write8", ret |-> 0, n |-> obs.n + 1,
                  latched |-> IF val % 2 = 1 THEN joypad.state ELSE obs.latched,
                  reads |-> IF val % 2 = 1 THEN 0 ELSE obs.reads]
  /\ UNCHANGED <<cpu, machine, ram, ppu, mapper, rom, cart, host, shutdown, halted, server>>

\* one NesBus::read8 of $4016
JoypadReadStep ==
  /\ obs.n < MaxJoypadCalls
  /\ joypad' = BusRead8(Sys, 16406).s.joypad
  /\ obs' = [obs EXCEPT !.call = "read8", !.ret = BusRead8(Sys, 16406).val,
                        !.n = obs.n + 1, !.reads = IF obs.reads < 9 THEN obs.reads + 1 ELSE 9]
  /\ UNCHANGED <<cpu, machine, ram, ppu, mapper, rom, cart, host, shutdown, halted, server>>

\* one Joypad::on_event, as poll_events of the host makes it
JoypadEventStep ==
  /\ obs.n < MaxJoypadCalls
  /\ \E press \in BOOLEAN, b \in Buttons :
       joypad' = JoypadOnEvent(joypad, press, b)
  /\ obs' = [obs EXCEPT !.call = "on_event", !.ret = 0, !.n = obs.n + 1]
  /\ UNCHANGED <<cpu, machine, ram, ppu, mapper, rom, cart, host, shutdown, halted, server>>

NextJoypad == JoypadStrobeStep \/ JoypadReadStep \/ JoypadEventStep

SpecJoypad == InitJoypad /\ [][NextJoypad]_vars

\* ------------------------------------------------------------------------
\* The cloud server: the accepting threads, the main thread of Server::serve
\* and the threads that wait for the instances, interleaved.  No emulator
\* runs in the server process.
InitCloud ==
  /\ \E block_dup \in BOOLEAN : server = ServerNew(block_dup)
  /\ rom = [len |-> 0]
  /\ cart = [err |-> "not loaded"]
  /\ host = "headless"
  /\ machine = [total_cycles |-> 0, total_ticks |-> 0]
  /\ ram = [i \in {} |-> 0]
  /\ ppu = PpuNew
  /\ mapper = [i \in {} |-> 0]
  /\ joypad = JoypadNew
  /\ shutdown = "No"
  /\ halted = ""
  /\ obs = ObsNew
  /\ cpu = CpuNew

\* an accepting thread: accept returns a new socket and Connect is sent
StartAccepting ==
  /\ \E client_id \in ClientIds \ server.accepted :
       server' = [server EXCEPT !.accepted = @ \cup {client_id},
                                !.rx = Append(@, Event("Connect", client_id, ""))]
  /\ UNCHANGED <<cpu, machine, ram, ppu, mapper, rom, cart, joypad, host, shutdown, halted, obs>>

Received == [server EXCEPT !.rx = Tail(@)]

\* the main thread: one rx.recv of Server::serve and the handling of the event
Serve ==
  /\ server.rx # <<>>
  /\ \/ /\ Head(server.rx).kind = "Connect"
        /\ \E started \in BOOLEAN :
             server' = ClientConnected(Received, Head(server.rx).id, started)
     \/ /\ Head(server.rx).kind = "Disconnect"
        /\ server' = ClientDisconnected(Received, Head(server.rx).id)
     \/ /\ Head(server.rx).kind = "Blocked"
        /\ server' = [Received EXCEPT !.written = @ \cup {<<Head(server.rx).id, Head(server.rx).msg>>}]
  /\ UNCHANGED <<cpu, machine, ram, ppu, mapper, rom, cart, joypad, host, shutdown, halted, obs>>

\* the thread ProcessInstanceRunner::run spawned: child.wait returns, the
\* instance is gone, and Disconnect is sent
InstanceExit ==
  /\ \E client_id \in server.instances :
       server' = [server EXCEPT !.instances = @ \ {client_id},
                                !.rx = Append(@, Event("Disconnect", client_id, ""))]
  /\ UNCHANGED <<cpu, machine, ram, ppu, mapper, rom, cart, joypad, host, shutdown, halted, obs>>

NextCloud == StartAccepting \/ Serve \/ InstanceExit

SpecCloud == InitCloud /\ [][NextCloud]_vars

\* ------------------------------------------------------------------------
\* Properties
\* ------------------------------------------------------------------------
Range(f) == {f[i] : i \in DOMAIN f}
Count(f, x) == Cardinality({i \in DOMAIN f : f[i] = x})

\* C1: a Nes::tick whose instruction does not write $4014 runs exactly 3
\* dots per cycle the instruction returned, so as long as no OAM DMA has run
\* the dots run in total are 3 times the CPU's total cycle count.
DotsAreThreeTimesCycles ==
  /\ obs.dma = <<>> => obs.dots = 3 * obs.cycles
  /\ obs.dma_total = 0 => obs.total_dots = 3 * machine.total_cycles

\* C1 witness: a tick without DMA whose instruction paid a penalty cycle
PenalisedTickSeen ==
  /\ obs.dma = <<>>
  /\ obs.inst.opcode \in Branches \cup {"LDA"}
  /\ obs.cycles > obs.inst.cycles
  /\ obs.dots = 3 * obs.cycles
  /\ machine.total_ticks > 1

\* C2: the Nes::tick in which the dot 241:1 sets the vblank flag calls
\* render and then poll_events, each once, and nmi() exactly when the NMI bit
\* of CTRL is set.
VblankEntryReported ==
  \A i \in DOMAIN obs.log :
    (obs.log[i].scanline = 241 /\ obs.log[i].cycle = 1 /\ obs.log[i].vbl = <<FALSE, TRUE>>) =>
      /\ Len(obs.calls) >= 2
      /\ obs.calls[1] = "render"
      /\ obs.calls[2] = "poll_events"
      /\ Count(obs.calls, "render") = 1
      /\ Count(obs.calls, "poll_events") = 1
      /\ ("nmi" \in Range(obs.calls)) <=> ppu.nmi_at_start_of_vblank

\* C3: when an IRQ was asserted while I was set and has not been serviced,
\* the instruction that clears I is followed at once by the IRQ.
IrqServicedOnceEnabled ==
  (/\ obs.irq_pending_before
   /\ "I" \in obs.flags_before
   /\ "I" \notin obs.pre_int.cpu.flags)
    => (obs.irq_taken = 1 /\ "irq" \in Range(obs.calls))

\* C4: an OAM DMA of page P leaves the 256 bytes of the page in OAM from
\* the pointer on, wrapping, and the pointer where it was.
DmaCopiesAndKeepsPointer ==
  \A i \in DOMAIN obs.dma :
    LET d == obs.dma[i] IN
    /\ \A k \in 0..255 :
         ppu.oam[(d.ptr_before + k) % 256] = BusRead8(Sys, d.page_start + k).val
    /\ ppu.oam_address = d.ptr_before

\* C5: a tick with an OAM DMA runs 513*3 dots more than its 3c when the DMA
\* starts in an even frame and 514*3 more in an odd frame, and the CPU
\* counters advance by the one instruction only.
DmaDotsFollowFrameParity ==
  [][\A i \in DOMAIN obs'.dma :
       LET d == obs'.dma[i] IN
       halted' = "" =>
       /\ obs'.dma_dots = IF d.frame_no % 2 = 0 THEN 513 * 3 ELSE 514 * 3
       /\ obs'.dots = 3 * obs'.cycles + obs'.dma_dots
       /\ machine'.total_cycles = machine.total_cycles + obs'.cycles
       /\ machine'.total_ticks = machine.total_ticks + 1]_vars

\* C6: the odd-frame flag changes once per frame; a frame rendered
\* throughout has 89342 dots when even and 89341 when odd; a frame without
\* rendering has 89342 dots.
FramesAlternate ==
  /\ obs.frame_flips <= 1
  /\ obs.frame_no > 0 =>
       /\ obs.last_flips = 1
       /\ obs.last_rend = {FALSE} => obs.last_len = 89342
       /\ obs.last_rend = {TRUE} =>
            obs.last_len = IF (obs.frame_no - 1) % 2 = 1 THEN 89341 ELSE 89342

\* C7: the vblank flag is set by the dot 241:1 and by nothing else; after
\* the dot 261:1 the vblank, sprite-0-hit and sprite-overflow flags are clear;
\* the sprite-0-hit flag is cleared by that dot only.
StatusFlagsFollowDots ==
  [][/\ \A i \in DOMAIN obs'.log :
          LET e == obs'.log[i] IN
          /\ e.vbl = <<FALSE, TRUE>> => (e.scanline = 241 /\ e.cycle = 1)
          /\ (e.scanline = 241 /\ e.cycle = 1) => e.vbl[2]
          /\ (e.scanline = 261 /\ e.cycle = 1) => (~e.vbl[2] /\ ~e.s0[2] /\ ~e.ov[2])
          /\ e.s0 = <<TRUE, FALSE>> => (e.scanline = 261 /\ e.cycle = 1)
     /\ (~ppu.in_vblank /\ ppu'.in_vblank) =>
          \E i \in DOMAIN obs'.log : obs'.log[i].vbl = <<FALSE, TRUE>>
     /\ (ppu.sprite_0_hit /\ ~ppu'.sprite_0_hit) =>
          \E i \in DOMAIN obs'.log : obs'.log[i].s0 = <<TRUE, FALSE>>]_vars

\* C7 witness: the dot 261:1 has cleared a vblank flag, a sprite-0 hit and
\* a sprite overflow that were all set
FlagsClearedAtPreRender ==
  \E i \in DOMAIN obs.log :
    /\ obs.log[i].scanline = 261 /\ obs.log[i].cycle = 1
    /\ obs.log[i].vbl = <<TRUE, FALSE>>
    /\ obs.log[i].s0 = <<TRUE, FALSE>>
    /\ obs.log[i].ov = <<TRUE, FALSE>>

\* C8: an interrupt that is taken pushes PC high, PC low and the status
\* with B clear and Unused set, sets I and loads PC from its vector, leaving
\* everything else alone; irq() with I set changes nothing; nmi() is always
\* taken.
InterruptEntry ==
  LET pre == obs.pre_int
      sp == pre.cpu.regs["SP"]
      slot(k) == STACK_TOP + ((sp + 256 - k) % 256)
      status == RamByte(ram, slot(2))
      Taken(vector) ==
        /\ RamByte(ram, slot(0)) = pre.cpu.pc \div 256
        /\ RamByte(ram, slot(1)) = pre.cpu.pc % 256
        /\ Bit(status, 4) = 0
        /\ Bit(status, 5) = 1
        /\ \A f \in Flags \ {"B", "UNUSED"} :
             (BitAnd(status, FlagBit(f)) # 0) <=> (f \in pre.cpu.flags)
        /\ \A a \in (DOMAIN ram \cup DOMAIN pre.ram) \ {slot(0), slot(1), slot(2)} :
             RamByte(ram, a) = RamByte(pre.ram, a)
        /\ cpu.regs = [pre.cpu.regs EXCEPT !["SP"] = (sp + 256 - 3) % 256]
        /\ cpu.flags = pre.cpu.flags \cup {"I"}
        /\ cpu.pc = BusRead8(Sys, vector).val + 256 * BusRead8(Sys, vector + 1).val
  IN obs.reset = 0 =>
       /\ obs.nmi = 1 => Taken(65530)
       /\ (obs.irq_calls = 1 /\ "I" \notin pre.cpu.flags) => (obs.irq_taken = 1 /\ Taken(65534))
       /\ (obs.irq_calls = 1 /\ "I" \in pre.cpu.flags) =>
            (obs.irq_taken = 0 /\ cpu = pre.cpu /\ ram = pre.ram)

\* C8 witness: an NMI is taken in a run that has seen an IRQ ignored with I
\* set and an IRQ taken with I clear
AllInterruptsSeen ==
  /\ obs.nmi = 1
  /\ obs.irq_ignored_total > 0
  /\ obs.irq_taken_total > 0
  /\ cpu.pc = NmiHandler

\* C9: after an instruction PC is at its target if it is a JMP, JSR, RTS,
\* RTI or taken branch, and has advanced by the instruction's size otherwise
\* (BRK, which the claim does not list, is left out).
PcAfterInstruction ==
  LET op == obs.inst.opcode
      off == obs.operands[1]
      next == (obs.pc_before + obs.inst.size) % 65536
      branch_target == (next + (IF off < 128 THEN off ELSE off + 65536 - 256)) % 65536
      taken == op \in Branches /\ BranchCond(op, obs.flags_before)
      target == IF op \in Branches THEN branch_target
                ELSE IF op = "JSR" \/ (op = "JMP" /\ obs.inst.mode = "Abs")
                THEN obs.operands[1] + 256 * obs.operands[2]
                ELSE obs.target
  IN op \notin {"none", "BRK"} =>
       IF op \in {"JMP", "JSR", "RTS", "RTI"} \/ taken
       THEN obs.pc_after = target
       ELSE obs.pc_after = next

\* C10: a branch costs 2 cycles when it is not taken or its offset is 0, 3
\* when it is taken to the page of the instruction that follows it and 4
\* when it is taken to another page; BEQ +4 at $80FE with Z set ends at $8104
\* after 3 cycles; a branch with offset 0 only steps over its 2 bytes.
BranchCycles ==
  LET op == obs.inst.opcode
      off == obs.operands[1]
      next == (obs.pc_before + 2) % 65536
      target == (next + (IF off < 128 THEN off ELSE off + 65536 - 256)) % 65536
      cond == BranchCond(op, obs.flags_before)
  IN op \in Branches =>
       /\ obs.cycles = IF ~cond \/ off = 0 THEN 2
                       ELSE IF next \div 256 = target \div 256 THEN 3 ELSE 4
       /\ off = 0 => obs.pc_after = next
       /\ (op = "BEQ" /\ obs.pc_before = 33022 /\ off = 4 /\ cond) =>
            (obs.pc_after = 33028 /\ obs.cycles = 3)

\* C10 witness: the BEQ +4 at $80FE has run with Z set
ExampleBranchRun ==
  /\ obs.inst.opcode = "BEQ"
  /\ obs.pc_before = 33022
  /\ obs.operands[1] = 4
  /\ "Z" \in obs.flags_before
  /\ obs.pc_after = 33028
  /\ obs.cycles = 3

\* C10 as stated: the page is judged from the address of the branch, so
\* that BEQ +4 at $80FE with Z set costs 4 cycles.
BranchCyclesFromBranchAddress ==
  LET op == obs.inst.opcode
      off == obs.operands[1]
      next == (obs.pc_before + 2) % 65536
      target == (next + (IF off < 128 THEN off ELSE off + 65536 - 256)) % 65536
      cond == BranchCond(op, obs.flags_before)
  IN op \in Branches =>
       /\ off # 0 => obs.cycles = IF ~cond THEN 2
                                  ELSE IF obs.pc_before \div 256 = target \div 256 THEN 3 ELSE 4
       /\ off = 0 => obs.pc_after = next
       /\ (op = "BEQ" /\ obs.pc_before = 33022 /\ off = 4 /\ cond) =>
            (obs.pc_after = 33028 /\ obs.cycles = 4)

\* C11: an instruction with an AbsoluteX, AbsoluteY or IndirectY operand
\* returns its base cycle count, plus 1 exactly when the indexed address is
\* on another page than the base address; STA, DCP, SLO, RLA, SRE, RRA and
\* ISC with an absolute operand never get the extra cycle and ISC with
\* IndirectY gets 4 on a crossing; an instruction with another operand
\* (branches aside) returns its base count whatever ran before it.
IndexedBase ==
  IF obs'.inst.mode = "IndY"
  THEN RamByte(ram, obs'.operands[1]) + 256 * RamByte(ram, (obs'.operands[1] + 1) % 256)
  ELSE obs'.operands[1] + 256 * obs'.operands[2]

IndexedCrosses ==
  LET index == IF obs'.inst.mode = "AbsX" THEN cpu.regs["X"] ELSE cpu.regs["Y"]
  IN ((IndexedBase + index) % 65536) \div 256 # IndexedBase \div 256

IndexedCycles ==
  [][machine'.total_ticks = machine.total_ticks + 1 =>
       IF obs'.inst.mode \in {"AbsX", "AbsY", "IndY"}
       THEN obs'.cycles = obs'.inst.cycles +
              (IF ~IndexedCrosses THEN 0
               ELSE IF obs'.inst.opcode \in {"STA", "DCP", "SLO", "RLA", "SRE", "RRA"} THEN 0
               ELSE IF obs'.inst.opcode = "ISC" THEN (IF obs'.inst.mode = "IndY" THEN 4 ELSE 0)
               ELSE 1)
       ELSE obs'.inst.opcode \notin Branches => obs'.cycles = obs'.inst.cycles]_vars

\* C11 witness: the NOP that follows a page-crossing LDA $02F0,X (5 cycles)
\* has returned its 2 cycles
AfterIndexedCrossing ==
  /\ PrgByte(12) = 189 /\ PrgByte(13) = 240 /\ PrgByte(14) = 2
  /\ cpu.regs["X"] = 32
  /\ obs.pc_before = Start + 15
  /\ obs.inst.opcode = "NOP"
  /\ obs.inst.mode = "Impl"
  /\ obs.cycles = 2
  /\ machine.total_cycles = 2 + 2 + 2 + 3 + 2 + 3 + 5 + 2

\* C11 as stated: ISC gets the one extra cycle with an absolute operand
IndexedCyclesIscAbsolute ==
  [][machine'.total_ticks = machine.total_ticks + 1 =>
       IF obs'.inst.mode \in {"AbsX", "AbsY", "IndY"}
       THEN obs'.cycles = obs'.inst.cycles +
              (IF ~IndexedCrosses THEN 0
               ELSE IF obs'.inst.opcode \in {"STA", "DCP", "SLO", "RLA", "SRE", "RRA"} THEN 0
               ELSE IF obs'.inst.opcode = "ISC" /\ obs'.inst.mode = "IndY" THEN 4
               ELSE 1)
       ELSE obs'.inst.opcode \notin Branches => obs'.cycles = obs'.inst.cycles]_vars

\* C12: every opcode byte decodes to an instruction descriptor, the bytes
\* that are neither official nor listed illegal opcodes to JAM: the core
\* never stops on a byte it cannot decode, and stops on a JAM with "jammed".
EveryOpbyteDecodes == halted # "Unknown opcode"

\* C13: on every mapper a CPU write to a PRG-ROM address that is not a mapper
\* register, a PPU write to $0000-$1FFF on a CHR-ROM cartridge and a read of
\* $4020-$5FFF never stop the core: no run ends in the panic of a mapper's
\* read8 or write8 for such an access.
RomWritesAndGapsNeverStop ==
  halted \notin { "writing to rom", "unknown NROM memory range",
                  "This cart is not configured for CHR RAM! Legit write?" }

\* C14: Cartridge::load returns an error whenever the file does not start
\* with the magic, has a PRG block count of 0, or is shorter than
\* 16 + 16 KiB * PRG blocks + 8 KiB * CHR blocks; in every cartridge it
\* returns, the PRG and CHR ranges lie inside the file.
LoadRejectsMalformed ==
  cart.err = "" =>
    /\ rom.magic = MAGIC
    /\ rom.prg_rom_blocks # 0
    /\ rom.len >= HEADER_SIZE + rom.prg_rom_blocks * PRG_ROM_BLOCK_SIZE
                    + rom.chr_rom_blocks * CHR_ROM_BLOCK_SIZE
    /\ cart.prg.end <= rom.len
    /\ ~cart.chr_ram_mode => cart.chr.end <= rom.len

\* C15: Cartridge::load returns an error for every file whose header has
\* (flags7 & $0C) = $08, an NES 2.0 image.
LoadRejectsNes2 == BitAnd(rom.flags7, 12) = 8 => cart.err # ""

\* C16: when poll_events returns Reset at a vblank, the CPU is reset exactly
\* once, as the last call of that Nes::tick and after its instruction has
\* run to the end, and the stored shutdown value is No again; a reset happens
\* in no other tick; when poll_events returns Yes the stored value is Yes when
\* the tick returns, and the driver loop runs no tick from such a state.
HostResetAtTickEnd ==
  [][ /\ shutdown # "Yes"
      /\ (obs'.poll = 1 /\ obs'.polled = "Reset") =>
            /\ Cardinality({i \in DOMAIN obs'.calls : obs'.calls[i] = "reset"}) = 1
            /\ obs'.calls[Len(obs'.calls)] = "reset"
            /\ machine'.total_cycles = machine.total_cycles + obs'.cycles
            /\ obs'.pc_after = obs'.pre_int.cpu.pc
            /\ cpu'.pc = PrgByte(PrgIndex(RESET_VECTOR)) + 256 * PrgByte(PrgIndex(RESET_VECTOR + 1))
            /\ cpu'.regs["SP"] = 253
            /\ shutdown' = "No"
      /\ (obs'.poll = 1 /\ obs'.polled = "Yes") => shutdown' = "Yes"
      /\ ~(obs'.poll = 1 /\ obs'.polled = "Reset") => "reset" \notin Range(obs'.calls)
    ]_vars

\* a tick that polled Reset at the vblank, called the NMI and then reset the CPU
AfterHostReset ==
  /\ obs.poll = 1 /\ obs.polled = "Reset" /\ obs.reset = 1 /\ obs.nmi = 1
  /\ obs.calls = <<"render", "poll_events", "nmi", "reset">>
  /\ cpu.pc = Start /\ cpu.regs["X"] = 0 /\ shutdown = "No"

\* C17: on each PPU clock the MMC3 first applies a pending reload request
\* (counter := latch) and otherwise decrements the counter; the clock asserts
\* the CPU IRQ exactly when the counter's value after that step is 0 and IRQ
\* is enabled, and never while IRQ is disabled.
ClockAssertsAtZero ==
  [][ (cart.mapper_type = "Mmc3" /\ obs'.call = "irq") =>
        /\ mapper.irq_reload => mapper'.irq_counter = mapper.irq_latch
        /\ (~mapper.irq_reload /\ mapper.irq_counter > 0) =>
              mapper'.irq_counter = mapper.irq_counter - 1
        /\ obs'.ret <=> (mapper'.irq_counter = 0 /\ mapper'.irq_enabled)
        /\ obs'.ret => mapper.irq_enabled
    ]_vars

\* C18: on MMC3 a write to an even address in $E000-$FFFF disables IRQ and a
\* write to an odd address there enables it, in every mapper state and
\* without halting the core; no clock asserts the IRQ while it is disabled.
IrqEnableWrites ==
  [][ cart.mapper_type = "Mmc3" =>
        /\ (obs'.call = "write8" /\ obs'.address >= 57344) =>
              (halted' = "" /\ mapper'.irq_enabled = (obs'.address % 2 = 1))
        /\ (obs'.call = "irq" /\ obs'.ret) => mapper.irq_enabled
    ]_vars

\* C19: a runtime mirroring change (an MMC1 Control-register commit, an MMC3
\* write to an even address in $A000-$BFFF) is reflected in the PPU's
\* nametable mirror map: after the write the PPU maps nametables with the
\* mirroring that write selected, and the write does not halt the core.
MirroringFollowsLastWrite ==
  [][ /\ (cart.mapper_type = "Mmc3" /\ obs'.call = "write8" /\ obs'.address = 40960) =>
            /\ halted' = ""
            /\ mapper'.mirroring = IF obs'.val % 2 = 1 THEN "Horizontal" ELSE "Vertical"
      /\ (cart.mapper_type = "Mmc1" /\ obs'.call = "write8" /\ obs'.address = 32768
            /\ obs'.val < 128 /\ Len(obs.bits) = 4) =>
            /\ halted' = ""
            /\ mapper'.mirroring =
                 <<"SingleScreenLower", "SingleScreenUpper", "Vertical", "Horizontal">>
                   [obs.bits[1] + 2 * obs.bits[2] + 1]
    ]_vars

\* C20: on MMC1, of five consecutive writes to $8000-$FFFF with bit 7 clear,
\* the first four change no bank, mode or mirroring state, and the fifth
\* commits the 5-bit value made of bit 0 of each write, first write lowest,
\* to the register selected by bits 13-14 of the fifth write's address
\* (Control, CHR bank 0, CHR bank 1, PRG bank) and empties the shift register.
ShiftRegisterCommits ==
  [][ (cart.mapper_type = "Mmc1" /\ obs'.call = "write8" /\ obs'.address >= 32768
         /\ obs'.val < 128) =>
        LET banks(m) == <<m.mirroring, m.chr_rom_bank_mode, m.prg_rom_bank_mode,
                          m.selected_chr_bank_0, m.selected_chr_bank_1, m.selected_prg_bank>>
            v == obs.bits[1] + 2 * obs.bits[2] + 4 * obs.bits[3] + 8 * obs.bits[4]
                   + 16 * (obs'.val % 2)
            register == (obs'.address \div 8192) % 4
        IN IF Len(obs.bits) < 4
           THEN banks(mapper') = banks(mapper) /\ halted' = ""
           ELSE /\ halted' = ""
                /\ mapper'.shift_register = 0 /\ mapper'.num_shift_writes = 0
                /\ banks(mapper') =
                     CASE register = 0 ->
                            << <<"SingleScreenLower", "SingleScreenUpper", "Vertical",
                                 "Horizontal">>[(v % 4) + 1],
                               IF v >= 16 THEN "SwitchTwo4KbBanks" ELSE "Switch8Kb",
                               <<"Switch32Kb", "Switch32Kb", "FixFirstLowerSwitchUpper",
                                 "FixLastUpperSwitchLower">>[((v \div 4) % 4) + 1],
                               mapper.selected_chr_bank_0, mapper.selected_chr_bank_1,
                               mapper.selected_prg_bank >>
                       [] register = 1 ->
                            [banks(mapper) EXCEPT ![4] =
                               IF mapper.chr_rom_bank_mode = "Switch8Kb" THEN v \div 2 ELSE v]
                       [] register = 2 ->
                            [banks(mapper) EXCEPT ![5] =
                               IF mapper.chr_rom_bank_mode = "Switch8Kb" THEN @ ELSE v]
                       [] OTHER -> [banks(mapper) EXCEPT ![6] = v % 16]
    ]_vars

\* the fifth write of a second group has put 21 (bits 1, 0, 1, 0, 1) into the
\* CHR bank 1 register, after a first group set the 4 KiB CHR mode
AfterChrBank1Commit ==
  /\ cart.mapper_type = "Mmc1" /\ obs.call = "write8" /\ obs.address = 49152
  /\ obs.n = 10 /\ obs.bits = <<>>
  /\ mapper.chr_rom_bank_mode = "SwitchTwo4KbBanks" /\ mapper.selected_chr_bank_1 = 21
  /\ mapper.num_shift_writes = 0

\* C21: on MMC1 a write to $8000-$FFFF with bit 7 set discards the bits
\* shifted in so far, so that the next commit needs five fresh writes, and
\* forces the PRG mode to fix-last/switch-first whatever it was before.
Bit7WriteResets ==
  [][ (cart.mapper_type = "Mmc1" /\ obs'.call = "write8" /\ obs'.address >= 32768
         /\ obs'.val >= 128) =>
        /\ halted' = ""
        /\ mapper'.shift_register = 0 /\ mapper'.num_shift_writes = 0
        /\ mapper'.prg_rom_bank_mode = "FixLastUpperSwitchLower"
    ]_vars

\* C22: on UxROM no value written to $8000-$FFFF makes a later read of
\* $8000-$FFFF fall outside the PRG ROM: the machine is never stopped by an
\* index out of bounds.
WrittenBankStaysInPrg ==
  cart.mapper_type = "Uxrom" => halted # "index out of bounds"

\* C23: on CNROM every CPU read of $8000-$FFFF returns a PRG ROM byte, with
\* 16 KiB of PRG as with 32 KiB: no such read stops the machine.
CnromReadsStayInPrg ==
  cart.mapper_type = "Cnrom" => halted # "index out of bounds"

\* C24: after a CPU write to a PPU register, the lower 5 bits a read of
\* $2002 returns are the lower 5 bits of the byte last written to a PPU
\* register.
StatusLowBitsAreLastWrite ==
  [][ (obs'.call = "read8" /\ MapAddress(obs'.address) = 2 /\ obs.last # -1) =>
        obs'.ret % 32 = obs.last % 32 ]_vars

\* C25: a CPU read of $2002 returns vblank, sprite-0-hit and sprite-overflow
\* in bits 7, 6 and 5, clears the vblank flag and puts the write toggle in
\* its first-write state, and changes nothing else of the PPU; a second read
\* with nothing in between returns bit 7 clear.
StatusReadClearsVblank ==
  [][ (obs'.call = "read8" /\ MapAddress(obs'.address) = 2) =>
        /\ halted' = ""
        /\ (obs'.ret \div 32) % 8 = (IF ppu.in_vblank THEN 4 ELSE 0)
                                     + (IF ppu.sprite_0_hit THEN 2 ELSE 0)
                                     + (IF ppu.sprite_overflow THEN 1 ELSE 0)
        /\ ppu' = [ppu EXCEPT !.in_vblank = FALSE, !.w_latch = PpuNew.w_latch]
        /\ (obs.call = "read8" /\ MapAddress(obs.address) = 2) => obs'.ret < 128 ]_vars

\* a $2002 read that found the vblank flag set and the toggle in its
\* second-write state
AfterStatusRead ==
  /\ obs.call = "read8" /\ MapAddress(obs.address) = 2
  /\ obs.ret = 224 /\ ~obs.w
  /\ ~ppu.in_vblank /\ ppu.sprite_0_hit /\ ppu.w_latch

\* C26: a write to $2006 made in the first-write state of the toggle changes
\* t (and the toggle) and leaves v unchanged; a second write lo straight
\* after a first write hi leaves t = v = ((hi & $3F) << 8) | lo and the
\* toggle back in the first-write state.
AddrWritePair ==
  [][ (obs'.call = "write8" /\ MapAddress(obs'.address) = 6) =>
        /\ halted' = ""
        /\ ppu.w_latch = PpuNew.w_latch =>
             /\ ppu'.v = ppu.v
             /\ ppu'.w_latch # PpuNew.w_latch
             /\ ppu' = [ppu EXCEPT !.t = ppu'.t, !.w_latch = ppu'.w_latch]
        /\ (obs.call = "write8" /\ MapAddress(obs.address) = 6 /\ obs.w = PpuNew.w_latch) =>
             /\ ppu'.t = (obs.val % 64) * 256 + obs'.val
             /\ ppu'.v = ppu'.t
             /\ ppu'.w_latch = PpuNew.w_latch ]_vars

\* $A1, $3F written to $2006 and its mirror: v = $213F
AfterAddrPair ==
  /\ obs.call = "write8" /\ obs.address = 16382 /\ obs.val = 63
  /\ ppu.v = 8511 /\ ppu.t = 8511 /\ ppu.w_latch

\* C27: every CPU read or write of $2007 increments v by 1 when bit 2 of the
\* byte last written to $2000 is clear, also when $2000 has never been
\* written, and by 32 when it is set; a read below $3F00 returns the byte the
\* previous read fetched and a read of the palette returns the palette byte.
DataAccessIncrementsV ==
  [][ (obs'.call \in {"read8", "write8"} /\ MapAddress(obs'.address) = 7) =>
        /\ halted' = ""
        /\ ppu'.v = ppu.v + (IF obs'.ctrl # -1 /\ Bit(obs'.ctrl, 2) = 1 THEN 32 ELSE 1)
        /\ obs'.call = "read8" =>
             obs'.ret = IF ppu.v % 16384 < 16128 THEN ppu.data_buffer
                        ELSE ppu.palette[PaletteMirror(ppu.v % 16384) % 32] ]_vars

\* the secondary-OAM entry with the zero-sprite marker has an opaque pixel at x
SpriteZeroOpaqueAt(x) ==
  \E i \in 1..Len(ppu.sprites) :
    /\ ppu.sprites[i].zero
    /\ x >= ppu.sprites[i].x /\ x < ppu.sprites[i].x + 8
    /\ ppu.sprites[i].pixels[7 - (x - ppu.sprites[i].x)] % 4 # 0

\* C28: a dot sets sprite-0-hit only at x # 255, at x < 8 only with the
\* background-left and the sprite-left mask both enabled, and only where the
\* background pixel and the pixel of sprite 0 are both opaque.
SpriteZeroHitConditions ==
  [][ (obs'.call = "pixel" /\ ~ppu.sprite_0_hit /\ ppu'.sprite_0_hit) =>
        /\ obs'.x # 255
        /\ obs'.x < 8 => (ppu.show_background_left /\ ppu.show_sprites_left)
        /\ ppu.show_background /\ ChrByte(ppu.background_table_address) # 0
        /\ SpriteZeroOpaqueAt(obs'.x) ]_vars

\* a hit in the left 8 pixels
AfterLeftHit ==
  /\ obs.call = "pixel" /\ obs.x < 8
  /\ ~obs.hit /\ ppu.sprite_0_hit

\* C29: after a write to $4016 with bit 0 set, the k-th of the next eight
\* reads of $4016 returns, alone in bit 0, the k-th of A, B, Select, Start,
\* Up, Down, Left, Right as it was at that write, whatever button events have
\* arrived since.
ReadsReturnLatchedButtons ==
  [][ (obs'.call = "read8" /\ obs.latched # -1 /\ obs.reads < 8) =>
        obs'.ret = Bit(obs.latched, obs.reads) ]_vars

\* the eighth read returns Right as pressed at the strobe, after its release
AfterEighthRead ==
  /\ obs.call = "read8" /\ obs.reads = 8 /\ obs.ret = 1
  /\ obs.latched >= 128 /\ joypad.state < 128

\* the program of StackImages
RunsPushPop ==
  <<PrgByte(0), PrgByte(2), PrgByte(3), PrgByte(5), PrgByte(6), PrgByte(7), PrgByte(9)>>
    = <<162, 154, 160, 152, 72, 169, 104>>

\* C30: at every stack pointer, a push stores at $0100 + SP and nowhere else
\* and takes 1 from SP modulo 256; a pop adds 1 to SP modulo 256 and returns
\* the byte at $0100 + SP; so a pop after a push of x returns x and restores
\* SP (in the push-pop program X holds the first SP and Y holds x).
PushPopRoundTrip ==
  [][ (halted' = "" /\ obs'.nmi = 0 /\ obs'.irq_taken = 0 /\ obs'.reset = 0) =>
        /\ obs'.inst.opcode = "PHA" =>
             /\ cpu'.regs["SP"] = (cpu.regs["SP"] + 255) % 256
             /\ RamByte(ram', STACK_TOP + cpu.regs["SP"]) = cpu.regs["AC"]
             /\ \A i \in (DOMAIN ram \cup DOMAIN ram') \ {STACK_TOP + cpu.regs["SP"]} :
                  RamByte(ram', i) = RamByte(ram, i)
        /\ obs'.inst.opcode = "PLA" =>
             /\ cpu'.regs["SP"] = (cpu.regs["SP"] + 1) % 256
             /\ cpu'.regs["AC"] = RamByte(ram, STACK_TOP + cpu'.regs["SP"])
             /\ ram' = ram
             /\ RunsPushPop => (cpu'.regs["AC"] = cpu.regs["Y"] /\ cpu'.regs["SP"] = cpu.regs["X"]) ]_vars

\* the pop of the push-pop program started with SP = $00: x was pushed at
\* $0100 with SP going to $FF, and the pop brought SP back to $00
AfterWrappingPop ==
  /\ RunsPushPop /\ obs.inst.opcode = "PLA"
  /\ cpu.regs["X"] = 0 /\ cpu.regs["SP"] = 0
  /\ cpu.regs["AC"] = 255 /\ RamByte(ram, STACK_TOP) = 255

\* C31: the status byte BRK and PHP push is the status register with bits 4
\* and 5 set; PLP and RTI load every flag from the pulled byte except bits 4
\* and 5, which stay as they were in the status register.
StatusPushPull ==
  [][ (halted' = "" /\ obs'.nmi = 0 /\ obs'.irq_taken = 0 /\ obs'.reset = 0) =>
        /\ obs'.inst.opcode = "PHP" =>
             RamByte(ram', STACK_TOP + cpu.regs["SP"]) = BitOr(FlagsBits(cpu.flags), 48)
        /\ obs'.inst.opcode = "BRK" =>
             RamByte(ram', STACK_TOP + ((cpu.regs["SP"] + 254) % 256))
               = BitOr(FlagsBits(cpu.flags), 48)
        /\ obs'.inst.opcode \in {"PLP", "RTI"} =>
             FlagsBits(cpu'.flags)
               = BitAnd(RamByte(ram, STACK_TOP + ((cpu.regs["SP"] + 1) % 256)), 207)
                 + BitAnd(FlagsBits(cpu.flags), 48) ]_vars

\* a PLP of $11: C was loaded, bit 4 stayed clear and bit 5 stayed set
AfterStatusPull ==
  /\ obs.inst.opcode = "PLP"
  /\ RamByte(ram, STACK_TOP + cpu.regs["SP"]) = 17
  /\ cpu.flags = {"C", "UNUSED"}

\* the flags N, V, Z, C of the sum a + m + c, as the 6502 defines them
AdcFlags(a, m, c) ==
  LET sum == a + m + c
      res == sum % 256
  IN (IF res >= 128 THEN {"N"} ELSE {})
       \cup (IF res = 0 THEN {"Z"} ELSE {})
       \cup (IF sum > 255 THEN {"C"} ELSE {})
       \cup (IF (a >= 128) = (m >= 128) /\ (res >= 128) # (a >= 128) THEN {"V"} ELSE {})

\* C32: ADC #M leaves (A + M + C) mod 256 in A with C, V, N and Z of that
\* sum and the other flags unchanged; SBC #M does what ADC of M XOR $FF
\* does.
AdcSbcArithmetic ==
  [][ (halted' = "" /\ obs'.inst.mode = "Imm" /\ obs'.inst.opcode \in {"ADC", "SBC"}) =>
        LET a == cpu.regs["AC"]
            m == IF obs'.inst.opcode = "ADC" THEN obs'.operands[1]
                 ELSE 255 - obs'.operands[1]
            c == IF "C" \in cpu.flags THEN 1 ELSE 0
        IN /\ cpu'.regs["AC"] = (a + m + c) % 256
           /\ cpu'.flags \cap {"N", "V", "Z", "C"} = AdcFlags(a, m, c)
           /\ cpu'.flags \ {"N", "V", "Z", "C"} = cpu.flags \ {"N", "V", "Z", "C"} ]_vars

\* SBC #$01 from A = $80 with C set: $7F, with V and C set
AfterSbcOverflow ==
  /\ obs.inst.opcode = "SBC" /\ obs.operands[1] = 1
  /\ cpu.regs["AC"] = 127 /\ {"V", "C"} \subseteq cpu.flags /\ "N" \notin cpu.flags

\* the word whose low byte is at zp and whose high byte is at the next
\* address of page zero, $00 after $FF
ZeropageWord(zp) == RamByte(ram, zp) + 256 * RamByte(ram, (zp + 1) % 256)

\* the RAM byte at a, or -1 when a is not a RAM address
RamAt(a) == IF a < 8192 THEN RamByte(ram, a % 2048) ELSE -1

\* C33: the effective address of a ZeropageX or ZeropageY operand is
\* (operand + index) mod 256: a load reads that byte of page zero, and a
\* store writes it and no other; IndirectX and IndirectY take both bytes of
\* their pointer from page zero, the second from $00 when the first is at $FF.
ZeropageOperandsWrap ==
  [][ (halted' = "" /\ obs'.nmi = 0 /\ obs'.irq_taken = 0 /\ obs'.reset = 0) =>
        LET op == obs'.inst.opcode
            mode == obs'.inst.mode
            operand == obs'.operands[1]
            zp == (operand + (IF mode = "ZeroY" THEN cpu.regs["Y"] ELSE cpu.regs["X"])) % 256
            reg == CASE op \in {"LDX", "STX"} -> "X" [] op \in {"LDY", "STY"} -> "Y"
                     [] OTHER -> "AC"
        IN /\ (mode \in {"ZeroX", "ZeroY"} /\ op \in {"LDA", "LDX", "LDY"}) =>
                cpu'.regs[reg] = RamByte(ram, zp)
           /\ (mode \in {"ZeroX", "ZeroY"} /\ op \in {"STA", "STX", "STY"}) =>
                /\ RamByte(ram', zp) = cpu.regs[reg]
                /\ \A i \in (DOMAIN ram \cup DOMAIN ram') \ {zp} :
                     RamByte(ram', i) = RamByte(ram, i)
           /\ (mode = "IndX" /\ op = "LDA" /\ ZeropageWord(zp) < 8192) =>
                cpu'.regs["AC"] = RamAt(ZeropageWord(zp))
           /\ (mode = "IndY" /\ op = "LDA"
                 /\ ZeropageWord(operand) + cpu.regs["Y"] < 8192) =>
                cpu'.regs["AC"] = RamAt(ZeropageWord(operand) + cpu.regs["Y"]) ]_vars

\* LDA ($DF,X) with X = $20: the pointer $0240 came from $FF and $00
AfterWrappedPointer ==
  /\ obs.inst.opcode = "LDA" /\ obs.inst.mode = "IndX"
  /\ obs.operands[1] = 223 /\ cpu.regs["X"] = 32
  /\ RamByte(ram, 256) = 3 /\ cpu.regs["AC"] = 170

\* two palette addresses name one byte: equal low 5 bits, or low 5 bits
\* that are $00/$10, $04/$14, $08/$18 or $0C/$1C
SamePaletteByte(a, b) ==
  \/ a % 32 = b % 32
  \/ (a % 4 = 0 /\ b % 4 = 0 /\ a % 16 = b % 16)

\* the palette byte that the 5-bit address b names
PaletteByte(p, b) == p.palette[IF b % 4 = 0 THEN b % 16 ELSE b]

\* C34: a byte written to a palette address is what a read of every address
\* of the same byte returns, $3F10/$3F14/$3F18/$3F1C being the bytes of
\* $3F00/$3F04/$3F08/$3F0C and $3F20-$3FFF repeating $3F00-$3F1F; a write
\* changes no other byte, and a read changes none.
PaletteMirrors ==
  [][ /\ obs'.call = "write8" =>
           \A b \in 0..31 :
             PaletteByte(ppu', b)
               = IF SamePaletteByte(obs'.address, b) THEN obs'.val
                 ELSE PaletteByte(ppu, b)
      /\ obs'.call = "read8" =>
           /\ ppu'.palette = ppu.palette
           /\ \A b \in 0..31 :
                SamePaletteByte(obs'.address, b) =>
                  obs'.ret = PaletteByte(ppu, b)
      /\ (obs.call = "write8" /\ obs'.call = "read8"
            /\ SamePaletteByte(obs.address, obs'.address)) =>
           obs'.ret = obs.val ]_vars

\* a read of $3F30 that returned a written $3F, kept in the byte of $3F00
AfterMirroredRead ==
  /\ obs.call = "read8" /\ obs.address = 16176 /\ obs.ret = 63
  /\ ppu.palette[0] = 63 /\ ppu.palette[16] = BlarrgPalette[16]


\* C35: the cloud server never has more than max_concurrent emulator
\* instances alive at once, whatever the interleaving of connections and
\* instance exits, several clients of one IP address included.
InstancesBounded ==
  Cardinality(server.instances) <= server.max_concurrent


\* C36: the mapper's IRQ counter is clocked at dot 260 of the scanlines 0 to
\* 239 and 261 while rendering is enabled, and at no other dot: not on the
\* scanlines 240 to 260 and not while rendering is disabled.
ClockedDot(e) ==
  e.cycle = 260 /\ e.en /\ (e.scanline <= 239 \/ e.scanline = 261)

MapperClockedAtDot260 ==
  [][\A i \in 1..Len(obs'.clk) : obs'.clk[i].clocked <=> ClockedDot(obs'.clk[i])]_vars


\* C37: an MMC1 read of $8000-$FFFF follows the PRG mode.  With n the
\* PRG-bank register: in 32 KiB mode $8000 shows the 16 KiB bank n with bit 0
\* cleared and $C000 the bank n with bit 0 set; in fix-first mode $8000 shows
\* bank 0 and $C000 bank n; in fix-last mode, the mode at power-on, $8000
\* shows bank n and $C000 the last bank.
ClaimedPrgBank(m, address) ==
  LET n == m.selected_prg_bank
      lower == address < 49152
  IN CASE m.prg_rom_bank_mode = "Switch32Kb" -> IF lower THEN n - (n % 2) ELSE n - (n % 2) + 1
       [] m.prg_rom_bank_mode = "FixFirstLowerSwitchUpper" -> IF lower THEN 0 ELSE n
       [] OTHER -> IF lower THEN n ELSE ((cart.prg_banks * KB8) \div KB16) - 1

PrgReadsFollowMode ==
  obs.call = "read8" /\ ClaimedPrgBank(mapper, obs.address) < (cart.prg_banks * KB8) \div KB16
    => /\ halted = ""
       /\ obs.ret = PrgByte(ClaimedPrgBank(mapper, obs.address) * KB16 + (obs.address % KB16))


\* OAM entry 0 covers the line: the test load_sprites_for_next_scanline makes
OamZeroCovers(p, next_line) ==
  /\ p.oam[0] <= 238
  /\ next_line >= p.oam[0] + 1
  /\ next_line < p.oam[0] + 1 + (IF p.sprite_size_16 THEN 16 ELSE 8)

\* C38: when OAM sprite 0 does not cover the scanline the sprites were loaded
\* for, no secondary-OAM entry carries the zero-sprite marker and no dot of
\* that scanline sets sprite-0-hit.
ZeroMarkerOnlyForOamZero ==
  ~OamZeroCovers(ppu, 1) =>
    /\ \A i \in 1..Len(ppu.sprites) : ~ppu.sprites[i].zero
    /\ ~ppu.sprite_0_hit


\* the pixel left by a walk of the secondary OAM that ends at the first
\* sprite whose x-range contains x and whose pixel is not transparent: its
\* colour, or drawn if it is behind an opaque background pixel
RECURSIVE FirstSpriteDraws(_, _, _, _, _)
FirstSpriteDraws(p, x, bg_pixel_drawn, k, drawn) ==
  IF k > Len(p.sprites) THEN drawn
  ELSE LET sprite == p.sprites[k] IN
       IF x < sprite.x \/ x >= SaturatingAdd8(sprite.x, 8)
          \/ sprite.pixels[7 - (x - sprite.x)] % 4 = 0
       THEN FirstSpriteDraws(p, x, bg_pixel_drawn, k + 1, drawn)
       ELSE IF ~sprite.priority \/ ~bg_pixel_drawn
       THEN 16 + sprite.pixels[7 - (x - sprite.x)]
       ELSE drawn

\* the colour Palette::rgb_from_index looks up, -1 for no pixel written
ColourOf(index) == IF index = -1 THEN -1 ELSE ppu.palette[index]

\* C39: the colour of a rendered pixel is that of the first sprite in
\* secondary-OAM order whose x-range contains the pixel and whose pixel is not
\* transparent; a later overlapping sprite does not overwrite it, and a sprite
\* behind the background leaves the colour of an opaque background pixel.
FirstSpriteSuppliesColour ==
  obs.call = "pixel" =>
    LET x == obs.x
        show_bg == ppu.show_background /\ (ppu.show_background_left \/ x >= 8)
        bg_pixel_drawn == show_bg /\ RenderBackgroundPixel(ppu, x, 1)
        drawn == IF show_bg THEN BackgroundEntry(ppu, mapper, x, 1) ELSE -1
    IN ColourOf(obs.pixel)
         = ColourOf(IF ppu.show_sprites /\ (ppu.show_sprites_left \/ x >= 8)
                    THEN FirstSpriteDraws(ppu, x, bg_pixel_drawn, 1, drawn)
                    ELSE drawn)


\* C40: v and t hold 15-bit values and fine-X a 3-bit value, whatever
\* register reads and writes and PPU dots have happened.
AddressRegistersIn15Bits ==
  /\ ppu.v <= 32767
  /\ ppu.t <= 32767
  /\ ppu.fine_x <= 7

====
